---------------------------- MODULE Spec2Model ----------------------------
(***************************************************************************)
(* Model of the stdlib-only mock EDI 834 generator:                        *)
(*   src/generators/mock_834_generator_nolibs.py  (variant "cli")          *)
(*   src/single_exe/mock_834_onefile_app.py       (variant "app")          *)
(*                                                                         *)
(* A text is a TLA+ string; the alphabet is ASCII.                         *)
(***************************************************************************)
EXTENDS Integers, Sequences, FiniteSets, TLC

VARIABLES
    variant,    \* which stdlib program runs: "cli" or "app"
    now,        \* the reading of datetime.now()
    pkg,        \* the input package: its fault, if any, and its worksheets
    outfile,    \* the output target
    pc,         \* position of the run: "start", "prepare", "members", "deps",
                \* "finalize", "write", "done", "failed"; "idle" when no run
    tables,     \* tables: the result of read_xlsx_tables
    st,         \* the settings locals of the run (sender .. as_of)
    plan_map,   \* plan_map: Plan_Key -> row of Plans
    deps_by_sub,\* deps_by_sub: Subscriber_ID -> rows of Dependents (by index)
    edi,        \* edi: the segments appended so far
    mi,         \* index in members of the row the outer loop is at
    di,         \* index in deps_by_sub[sub_id] the inner loop is at
    cur,        \* locals of the current subscriber that the inner loop reads
    err,        \* the exception that ended the run
    log,        \* history: which record produced which segments of edi
    dPc,        \* date normalizer harness: "idle", "in", "out", "again"
    dIn,        \* the value handed to yyyymmdd
    dOut,       \* the result of yyyymmdd(dIn)
    dOut2,      \* the result of yyyymmdd applied to a successful dOut
    run,        \* which run of the process this is: 1, or 2 after a rerun
    prev,       \* how the first run of the process ended
    parked,     \* the locals and the target of the other invocation, which
                \* holds the processor when they are swapped in
    cPc,        \* cell harness: "idle", "in", "out"
    cIn,        \* the shared strings and the cell handed to parse_sheet
    cOut,       \* the value parse_sheet stores for the cell
    ui          \* the window of a threaded desktop form: its variables,
                \* buttons, worker threads, pending callbacks and files

runVars == <<now, pkg, outfile, pc, tables, st, plan_map, deps_by_sub, edi,
             mi, di, cur, err, log>>

dateVars == <<dPc, dIn, dOut, dOut2>>

cellVars == <<cPc, cIn, cOut>>

\* What a step of one run leaves alone, besides the date harness.
otherVars == <<run, prev, parked, cellVars, ui>>

vars == <<variant, runVars, dateVars, otherVars>>

Variants == {"cli", "app"}

(***************************************************************************)
(* Text helpers.  A text is a TLA+ string, that is, a sequence of          *)
(* characters: Len, SubSeq and \o act on it as on any sequence.            *)
(***************************************************************************)

Digits == {"0", "1", "2", "3", "4", "5", "6", "7", "8", "9"}

Whitespace == {" ", "\t", "\n"}

UpperLetters == "ABCDEFGHIJKLMNOPQRSTUVWXYZ"

LowerLetters == "abcdefghijklmnopqrstuvwxyz"

\* The i-th character of s.
ch(s, i) ==
    SubSeq(s, i, i)

RECURSIVE lstrip(_)
lstrip(s) ==
    IF s # "" /\ ch(s, 1) \in Whitespace
    THEN lstrip(SubSeq(s, 2, Len(s)))
    ELSE s

RECURSIVE rstrip(_)
rstrip(s) ==
    IF s # "" /\ ch(s, Len(s)) \in Whitespace
    THEN rstrip(SubSeq(s, 1, Len(s) - 1))
    ELSE s

\* _strip: None (modelled as the empty text) and "" give ""; else str.strip().
strip(s) ==
    rstrip(lstrip(s))

\* The index of the first occurrence of character c in s, 0 when none.
indexOf(s, c) ==
    IF \E i \in 1..Len(s) : ch(s, i) = c
    THEN CHOOSE i \in 1..Len(s) :
             ch(s, i) = c /\ \A j \in 1..(i - 1) : ch(s, j) # c
    ELSE 0

lowerChar(c) ==
    IF indexOf(UpperLetters, c) # 0
    THEN ch(LowerLetters, indexOf(UpperLetters, c))
    ELSE c

upperChar(c) ==
    IF indexOf(LowerLetters, c) # 0
    THEN ch(UpperLetters, indexOf(LowerLetters, c))
    ELSE c

RECURSIVE lower(_)
lower(s) ==
    IF s = "" THEN "" ELSE lowerChar(ch(s, 1)) \o lower(SubSeq(s, 2, Len(s)))

RECURSIVE upper(_)
upper(s) ==
    IF s = "" THEN "" ELSE upperChar(ch(s, 1)) \o upper(SubSeq(s, 2, Len(s)))

\* str.isdigit(): non-empty and every character a digit.
isdigit(s) ==
    Len(s) > 0 /\ \A i \in 1..Len(s) : ch(s, i) \in Digits

digitVal(c) ==
    CHOOSE n \in 0..9 : ToString(n) = c

\* int() of a text of digits.
RECURSIVE intOf(_)
intOf(s) ==
    IF s = "" THEN 0
    ELSE 10 * intOf(SubSeq(s, 1, Len(s) - 1)) + digitVal(ch(s, Len(s)))

\* n written with at least w digits, zero padded on the left (format "0wd").
RECURSIVE zeroPad(_, _)
zeroPad(n, w) ==
    IF n < 10 /\ w <= 1 THEN ToString(n)
    ELSE zeroPad(n \div 10, w - 1) \o ToString(n % 10)

(***************************************************************************)
(* Date normalizer                                                         *)
(***************************************************************************)

\* datetime(1899, 12, 30).toordinal()
EpochOrdinal == 693594

\* date.max.toordinal(): 9999-12-31
MaxOrdinal == 3652059

DaysBeforeMonth == <<0, 31, 59, 90, 120, 151, 181, 212, 243, 273, 304, 334>>

DaysInMonth == <<31, 28, 31, 30, 31, 30, 31, 31, 30, 31, 30, 31>>

\* The month and day of day n (from 0) of a year, leap or not.
monthDay(year, leap, n) ==
    LET m0 == (n + 50) \div 32
        before0 == DaysBeforeMonth[m0] + (IF m0 > 2 /\ leap THEN 1 ELSE 0)
    IN  IF before0 > n
        THEN [y |-> year, m |-> m0 - 1,
              d |-> n - (before0 - (DaysInMonth[m0 - 1]
                                    + (IF m0 - 1 = 2 /\ leap THEN 1 ELSE 0))) + 1]
        ELSE [y |-> year, m |-> m0, d |-> n - before0 + 1]

\* The date from the counts of whole 400-year, 100-year, 4-year and 1-year
\* cycles before the day and the day's offset n in its year.
cycleDate(n400, n100, n4, n1, n) ==
    IF n1 = 4 \/ n100 = 4
    THEN [y |-> n400 * 400 + n100 * 100 + n4 * 4 + n1, m |-> 12, d |-> 31]
    ELSE monthDay(n400 * 400 + 1 + n100 * 100 + n4 * 4 + n1,
                  n1 = 3 /\ (n4 # 24 \/ n100 = 3), n)

\* The proleptic Gregorian date of an ordinal (day 1 is 0001-01-01), as
\* datetime computes it: n0 is the ordinal less one.
ord2ymd(ordinal) ==
    LET n0 == ordinal - 1
    IN  cycleDate(n0 \div 146097,
                  (n0 % 146097) \div 36524,
                  ((n0 % 146097) % 36524) \div 1461,
                  (((n0 % 146097) % 36524) % 1461) \div 365,
                  (((n0 % 146097) % 36524) % 1461) % 365)

\* strftime("%Y%m%d")
strftimeYmd(dt) ==
    zeroPad(dt.y, 4) \o zeroPad(dt.m, 2) \o zeroPad(dt.d, 2)

\* re.match(r"^(\d{4})-(\d{2})-(\d{2})$", s)
isIsoDate(s) ==
    /\ Len(s) = 10
    /\ ch(s, 5) = "-"
    /\ ch(s, 8) = "-"
    /\ \A i \in {1, 2, 3, 4, 6, 7, 9, 10} : ch(s, i) \in Digits

\* re.match(r"^\d+(\.\d+)?$", s)
isNumeric(s) ==
    LET dot == indexOf(s, ".")
    IN  IF dot = 0 THEN isdigit(s)
        ELSE /\ isdigit(SubSeq(s, 1, dot - 1))
             /\ isdigit(SubSeq(s, dot + 1, Len(s)))

\* The whole days of float(s) for a numeric s.  The fraction only adds
\* hours to the datetime: the fractions drawn here are a few digits long,
\* far from the twelve nines that would round up to the next day.
wholeDays(s) ==
    LET dot == indexOf(s, ".")
    IN  intOf(IF dot = 0 THEN s ELSE SubSeq(s, 1, dot - 1))

\* re.match(r"^(\d{1,2})/(\d{1,2})/(\d{4})$", s), as its three groups;
\* <<>> when s does not match.
slashGroups(s) ==
    LET a == indexOf(s, "/")
        rest == IF a = 0 THEN "" ELSE SubSeq(s, a + 1, Len(s))
        b == indexOf(rest, "/")
        mm == IF a = 0 THEN "" ELSE SubSeq(s, 1, a - 1)
        dd == IF b = 0 THEN "" ELSE SubSeq(rest, 1, b - 1)
        yy == IF b = 0 THEN "" ELSE SubSeq(rest, b + 1, Len(rest))
    IN  IF /\ a # 0
           /\ b # 0
           /\ isdigit(mm) /\ Len(mm) <= 2
           /\ isdigit(dd) /\ Len(dd) <= 2
           /\ isdigit(yy) /\ Len(yy) = 4
        THEN <<mm, dd, yy>>
        ELSE <<>>

\* f"{yy}{int(mm):02d}{int(dd):02d}" of the groups <<mm, dd, yy>>
slashDate(g) ==
    g[3] \o zeroPad(intOf(g[1]), 2) \o zeroPad(intOf(g[2]), 2)

\* The try block of the numeric branch: "" when it raises (the exception
\* is swallowed), else the formatted date.  The cli program never imported
\* timedelta, so the name lookup raises NameError there; in the app the
\* addition raises OverflowError past 9999-12-31.
excelDate(v, s) ==
    IF v = "cli" THEN ""
    ELSE IF EpochOrdinal + wholeDays(s) > MaxOrdinal THEN ""
    ELSE strftimeYmd(ord2ymd(EpochOrdinal + wholeDays(s)))

\* A normalizer that tries the day count before the 8-digit form.
normalizedDayCountFirst(v, s) ==
    IF s = "" THEN [ok |-> TRUE, val |-> ""]
    ELSE IF isNumeric(s) /\ excelDate(v, s) # ""
         THEN [ok |-> TRUE, val |-> excelDate(v, s)]
    ELSE IF Len(s) = 8 /\ isdigit(s) THEN [ok |-> TRUE, val |-> s]
    ELSE IF isIsoDate(s)
         THEN [ok |-> TRUE,
               val |-> SubSeq(s, 1, 4) \o SubSeq(s, 6, 7) \o SubSeq(s, 9, 10)]
    ELSE IF slashGroups(s) # <<>>
         THEN [ok |-> TRUE, val |-> slashDate(slashGroups(s))]
    ELSE [ok |-> FALSE, val |-> s]

\* The body of yyyymmdd on the stripped value s: [ok |-> TRUE, val |-> the
\* result], or [ok |-> FALSE, val |-> s] for
\* ValueError("Bad date '<s>' (expected ...)").
normalized(v, s) ==
    IF s = "" THEN [ok |-> TRUE, val |-> ""]
    ELSE IF Len(s) = 8 /\ isdigit(s) THEN [ok |-> TRUE, val |-> s]
    ELSE IF isIsoDate(s)
         THEN [ok |-> TRUE,
               val |-> SubSeq(s, 1, 4) \o SubSeq(s, 6, 7) \o SubSeq(s, 9, 10)]
    ELSE IF isNumeric(s) /\ excelDate(v, s) # ""
         THEN [ok |-> TRUE, val |-> excelDate(v, s)]
    ELSE IF slashGroups(s) # <<>>
         THEN [ok |-> TRUE, val |-> slashDate(slashGroups(s))]
    ELSE [ok |-> FALSE, val |-> s]

\* yyyymmdd(val) of program v.
yyyymmdd(v, val) ==
    normalized(v, strip(val))

(***************************************************************************)
(* Dictionaries: a dict is a function; the empty dict is the empty         *)
(* function.                                                               *)
(***************************************************************************)

EmptyDict == <<>>

\* d.get(k, default)
Get(d, k, default) ==
    IF k \in DOMAIN d THEN d[k] ELSE default

\* d[k] = v
Put(d, k, v) ==
    [x \in DOMAIN d \cup {k} |-> IF x = k THEN v ELSE d[x]]

Max(S) ==
    CHOOSE x \in S : \A y \in S : y <= x

(***************************************************************************)
(* The table projector of read_xlsx_tables.  A worksheet is given by its   *)
(* name and by cells, the sparse grid parse_sheet returns: a function from *)
(* <<row, column>> to the text of the cell.                                *)
(***************************************************************************)

SettingsPlaceholders == {"field", "mock 834 generator - settings"}

\* A projection in which the first row of a label wins.
RECURSIVE settingsKvFirstWins(_, _)
settingsKvFirstWins(cells, r) ==
    IF r = 0 THEN EmptyDict
    ELSE LET kv == settingsKvFirstWins(cells, r - 1)
             k == strip(Get(cells, <<r, 1>>, ""))
             v == strip(Get(cells, <<r, 2>>, ""))
         IN  IF /\ k # ""
                /\ lower(k) \notin SettingsPlaceholders
                /\ k \notin DOMAIN kv
             THEN Put(kv, k, v)
             ELSE kv

\* The kv dict after rows 1..r of a settings sheet: the last row of a label
\* wins.
RECURSIVE settingsKv(_, _)
settingsKv(cells, r) ==
    IF r = 0 THEN EmptyDict
    ELSE LET kv == settingsKv(cells, r - 1)
             k == strip(Get(cells, <<r, 1>>, ""))
             v == strip(Get(cells, <<r, 2>>, ""))
         IN  IF k # "" /\ lower(k) \notin SettingsPlaceholders
             THEN Put(kv, k, v)
             ELSE kv

\* headers: the stripped cells of row 1, columns 1..max_col.
tableHeaders(cells, max_col) ==
    [c \in 1..max_col |-> strip(Get(cells, <<1, c>>, ""))]

\* The row dict of row r: one key per non-empty header, holding the cell
\* of the last column with that header.
tableRow(cells, headers, r) ==
    LET cols == {c \in 1..Len(headers) : headers[c] # ""}
    IN  [h \in {headers[c] : c \in cols} |->
            strip(Get(cells, <<r, Max({c \in cols : headers[c] = h})>>, ""))]

\* A flag that looks at every column, retained or not.
rowEmptyAnyColumn(cells, headers, r) ==
    \A c \in 1..Len(headers) : strip(Get(cells, <<r, c>>, "")) = ""

\* The flag empty of row r: no retained column holds a non-empty value.
rowEmpty(cells, headers, r) ==
    \A c \in 1..Len(headers) :
        headers[c] # "" => strip(Get(cells, <<r, c>>, "")) = ""

\* table after rows 2..r.
RECURSIVE tableRows(_, _, _)
tableRows(cells, headers, r) ==
    IF r < 2 THEN <<>>
    ELSE LET before == tableRows(cells, headers, r - 1)
         IN  IF rowEmpty(cells, headers, r) THEN before
             ELSE Append(before, tableRow(cells, headers, r))

\* results[name] for one worksheet.
projectSheet(name, cells) ==
    IF DOMAIN cells = {} THEN <<>>
    ELSE LET max_row == Max({rc[1] : rc \in DOMAIN cells})
             max_col == Max({rc[2] : rc \in DOMAIN cells})
         IN  IF lower(name) = "settings"
             THEN <<settingsKv(cells, max_row)>>
             ELSE tableRows(cells, tableHeaders(cells, max_col), max_row)

\* What the relationship target of a declared sheet leads to: "ok", a
\* well-formed part under worksheets/; "absent", a worksheets/ name the
\* archive does not hold; "malformed", a worksheets/ part that is not XML;
\* "chart", a target outside worksheets/; "norel", no relationship for the
\* sheet's r:id.  A sheet that does not say is "ok".
partOf(sh) ==
    IF "part" \in DOMAIN sh THEN sh.part ELSE "ok"

\* The state of xl/sharedStrings.xml: "ok", "absent" or "malformed".  A
\* package that does not say holds a well-formed part.
sharedOf(p) ==
    IF "shared" \in DOMAIN p THEN p.shared ELSE "ok"

\* "if not target or not target.startswith('worksheets/'): continue"
skipped(sh) ==
    partOf(sh) \in {"chart", "norel"}

\* results after the first n worksheets: a later sheet of the same name
\* replaces an earlier one, and a sheet whose target is no worksheet part
\* adds nothing.
RECURSIVE projectSheets(_, _)
projectSheets(sheets, n) ==
    IF n = 0 THEN EmptyDict
    ELSE IF skipped(sheets[n]) THEN projectSheets(sheets, n - 1)
    ELSE Put(projectSheets(sheets, n - 1), sheets[n].name,
             projectSheet(sheets[n].name, sheets[n].cells))

\* The first worksheet, in workbook order, that parse_sheet cannot read:
\* "nosheet" when z.read finds no such part, "badsheet" when ET.fromstring
\* rejects it, "none" when every sheet is read or skipped.
RECURSIVE sheetFault(_, _)
sheetFault(sheets, i) ==
    IF i > Len(sheets) THEN "none"
    ELSE IF partOf(sheets[i]) = "absent" THEN "nosheet"
    ELSE IF partOf(sheets[i]) = "malformed" THEN "badsheet"
    ELSE sheetFault(sheets, i + 1)

\* The first statement of read_xlsx_tables that raises on package p, in the
\* order of the code: opening the archive, the shared strings, the workbook
\* index, the relationship index, the worksheets; "none" when it returns.
readFault(p) ==
    IF p.fault = "notzip" THEN "notzip"
    ELSE IF sharedOf(p) = "malformed" THEN "badshared"
    ELSE IF p.fault # "none" THEN p.fault
    ELSE sheetFault(p.sheets, 1)

\* read_xlsx_tables on a package it can read.
read_xlsx_tables(p) ==
    projectSheets(p.sheets, Len(p.sheets))

\* What opening a faulty package raises.
packageError(fault) ==
    CASE fault = "notzip" ->
            [kind |-> "BadZipFile", msg |-> "File is not a zip file"]
      [] fault = "noworkbook" ->
            [kind |-> "KeyError",
             msg |-> "There is no item named 'xl/workbook.xml' in the archive"]
      [] fault = "norels" ->
            [kind |-> "KeyError",
             msg |-> "There is no item named 'xl/_rels/workbook.xml.rels' in the archive"]
      [] fault = "nosheet" ->
            [kind |-> "KeyError",
             msg |-> "There is no item named 'xl/worksheets/sheet.xml' in the archive"]
      [] OTHER ->
            [kind |-> "ParseError", msg |-> "syntax error: line 1, column 0"]

(***************************************************************************)
(* The cell grid extractor: the value parse_sheet stores for one cell.     *)
(* A cell is its type flag t, whether it holds a v element with text, and  *)
(* that text.                                                              *)
(***************************************************************************)

\* Whether int() takes s for the digits of a number: digits, with single
\* underscores between digits allowed.
isIntBody(s) ==
    /\ s # ""
    /\ ch(s, 1) \in Digits
    /\ ch(s, Len(s)) \in Digits
    /\ \A i \in 1..Len(s) : ch(s, i) \in Digits \cup {"_"}
    /\ \A i \in 1..(Len(s) - 1) : ~(ch(s, i) = "_" /\ ch(s, i + 1) = "_")

\* s without its underscores.
RECURSIVE dropUnderscores(_)
dropUnderscores(s) ==
    IF s = "" THEN ""
    ELSE IF ch(s, 1) = "_" THEN dropUnderscores(SubSeq(s, 2, Len(s)))
    ELSE ch(s, 1) \o dropUnderscores(SubSeq(s, 2, Len(s)))

\* s without its leading zeros.
RECURSIVE dropZeros(_)
dropZeros(s) ==
    IF s # "" /\ ch(s, 1) = "0" THEN dropZeros(SubSeq(s, 2, Len(s))) ELSE s

\* The number a text of digits denotes.  A Python int has no width; a
\* number of more than nine digits is past the length of every list and
\* stands here as 10^9.
magnitude(digits) ==
    IF Len(dropZeros(digits)) > 9 THEN 1000000000
    ELSE intOf(dropZeros(digits))

\* int(raw): surrounding whitespace is dropped, a sign may lead; ok is
\* FALSE where int() raises ValueError.
int(raw) ==
    LET t == strip(raw)
        signed == t # "" /\ ch(t, 1) \in {"+", "-"}
        body == IF signed THEN SubSeq(t, 2, Len(t)) ELSE t
    IN  IF ~isIntBody(body) THEN [ok |-> FALSE, val |-> 0]
        ELSE IF signed /\ ch(t, 1) = "-"
        THEN [ok |-> TRUE, val |-> 0 - magnitude(dropUnderscores(body))]
        ELSE [ok |-> TRUE, val |-> magnitude(dropUnderscores(body))]

\* shared_strings[i]: a list index counts from the end when negative; ok is
\* FALSE where the index raises IndexError.
sharedAt(shared_strings, i) ==
    IF 0 <= i /\ i < Len(shared_strings)
    THEN [ok |-> TRUE, val |-> shared_strings[i + 1]]
    ELSE IF 0 - Len(shared_strings) <= i /\ i < 0
    THEN [ok |-> TRUE, val |-> shared_strings[Len(shared_strings) + i + 1]]
    ELSE [ok |-> FALSE, val |-> ""]

\* try: value = shared_strings[int(raw)] except Exception: value = raw
sharedOrRaw(shared_strings, raw, index) ==
    IF index.ok /\ sharedAt(shared_strings, index.val).ok
    THEN sharedAt(shared_strings, index.val).val
    ELSE raw

\* The value of cell c in the grid of parse_sheet.
cellValue(shared_strings, c) ==
    IF ~c.hasV THEN ""
    ELSE IF c.t = "s" THEN sharedOrRaw(shared_strings, c.v, int(c.v))
    ELSE c.v

(***************************************************************************)
(* EDI helpers                                                             *)
(***************************************************************************)

RECURSIVE joinWith(_, _)
joinWith(sep, texts) ==
    IF Len(texts) = 0 THEN ""
    ELSE IF Len(texts) = 1 THEN texts[1]
    ELSE texts[1] \o sep \o joinWith(sep, Tail(texts))

ELEM_SEP == "*"

SEG_TERM == "~"

\* seg(*elements): ELEM_SEP.join(elements) + SEG_TERM
seg(elements) ==
    joinWith(ELEM_SEP, elements) \o SEG_TERM

\* "\n".join(edi)
joinLines(segments) ==
    joinWith("\n", segments)

\* s.ljust(15)[:15]
RECURSIVE ljust15(_)
ljust15(s) ==
    IF Len(s) >= 15 THEN SubSeq(s, 1, 15) ELSE ljust15(s \o " ")

\* s.zfill(9): zeros go after a leading sign.
RECURSIVE zfill9(_)
zfill9(s) ==
    IF Len(s) >= 9 THEN s
    ELSE IF s # "" /\ ch(s, 1) \in {"+", "-"}
         THEN zfill9(ch(s, 1) \o "0" \o SubSeq(s, 2, Len(s)))
         ELSE zfill9("0" \o s)

\* now.strftime("%Y-%m-%d")
strftimeIso(dt) ==
    zeroPad(dt.y, 4) \o "-" \o zeroPad(dt.m, 2) \o "-" \o zeroPad(dt.d, 2)

\* now.strftime("%y%m%d")
strftimeYy(dt) ==
    zeroPad(dt.y % 100, 2) \o zeroPad(dt.m, 2) \o zeroPad(dt.d, 2)

\* now.strftime("%H%M")
strftimeHm(dt) ==
    zeroPad(dt.H, 2) \o zeroPad(dt.M, 2)

\* An append that has lost its guard.
WhenAlways(cond, s) ==
    <<s>>

\* <<s>> when cond, else nothing: a guarded edi.append.
When(cond, s) ==
    IF cond THEN <<s>> ELSE <<>>

(***************************************************************************)
(* The transaction assembler: main of the cli program,                     *)
(* generate_834_from_xlsx of the app.                                      *)
(***************************************************************************)

\* (tables.get("Settings") or [{}])[0]
settingsOf(tbls) ==
    LET t == Get(tbls, "Settings", <<>>)
    IN  IF Len(t) = 0 THEN EmptyDict ELSE t[1]

\* tables.get(name) or []
tableOf(tbls, name) ==
    Get(tbls, name, <<>>)

\* The settings locals, as_of still as the result of yyyymmdd.
\* settings.get(k) or default: a blank value falls back to the default.
getOrDefault(settings, k, default) ==
    IF strip(Get(settings, k, "")) = "" THEN default ELSE settings[k]

\* Locals that take the default for a blank value as for an absent label.
settingsLocalsBlankIsDefault(v, settings, clock) ==
    [ sender |-> strip(getOrDefault(settings, "Sender_ID (ISA06)", "SENDERID")),
      receiver |-> strip(getOrDefault(settings, "Receiver_ID (ISA08)", "RECEIVERID")),
      icn |-> zfill9(strip(getOrDefault(settings, "Interchange_Control (ISA13)", "1"))),
      gcn |-> strip(getOrDefault(settings, "Group_Control (GS06)", "1")),
      tcn |-> strip(getOrDefault(settings, "Transaction_Control (ST02)", "1")),
      sponsor_name |-> strip(getOrDefault(settings, "Sponsor_Name (Employer)", "SPONSOR")),
      sponsor_id |-> strip(getOrDefault(settings, "Sponsor_ID (Employer ID)", "000000000")),
      payer_name |-> strip(getOrDefault(settings, "Payer_Name (Carrier)", "PAYER")),
      payer_id |-> strip(getOrDefault(settings, "Payer_ID (Carrier ID)", "999999")),
      file_type |-> upper(strip(getOrDefault(settings, "File_Type", "FULL"))),
      as_of |-> yyyymmdd(v, strip(getOrDefault(settings, "As_Of_Date",
                                               strftimeIso(clock)))) ]

settingsLocals(v, settings, clock) ==
    [ sender |-> strip(Get(settings, "Sender_ID (ISA06)", "SENDERID")),
      receiver |-> strip(Get(settings, "Receiver_ID (ISA08)", "RECEIVERID")),
      icn |-> zfill9(strip(Get(settings, "Interchange_Control (ISA13)", "1"))),
      gcn |-> strip(Get(settings, "Group_Control (GS06)", "1")),
      tcn |-> strip(Get(settings, "Transaction_Control (ST02)", "1")),
      sponsor_name |-> strip(Get(settings, "Sponsor_Name (Employer)", "SPONSOR")),
      sponsor_id |-> strip(Get(settings, "Sponsor_ID (Employer ID)", "000000000")),
      payer_name |-> strip(Get(settings, "Payer_Name (Carrier)", "PAYER")),
      payer_id |-> strip(Get(settings, "Payer_ID (Carrier ID)", "999999")),
      file_type |-> upper(strip(Get(settings, "File_Type", "FULL"))),
      as_of |-> yyyymmdd(v, strip(Get(settings, "As_Of_Date", strftimeIso(clock)))) ]

\* plan_map after the first n rows of plans.
RECURSIVE planMap(_, _)
planMap(plans, n) ==
    IF n = 0 THEN EmptyDict
    ELSE LET pm == planMap(plans, n - 1)
             key == strip(Get(plans[n], "Plan_Key", ""))
         IN  IF key # "" THEN Put(pm, key, plans[n]) ELSE pm

\* An index that is never cleared: it starts from what deps_by_sub holds.
RECURSIVE depsBySubKept(_, _)
depsBySubKept(deps, n) ==
    IF n = 0 THEN deps_by_sub
    ELSE LET idx == depsBySubKept(deps, n - 1)
             sid == strip(Get(deps[n], "Subscriber_ID", ""))
         IN  IF sid = "" THEN idx
             ELSE Put(idx, sid, Append(Get(idx, sid, <<>>), n))

\* An index that puts the newest row of a subscriber first.
RECURSIVE depsBySubNewestFirst(_, _)
depsBySubNewestFirst(deps, n) ==
    IF n = 0 THEN EmptyDict
    ELSE LET idx == depsBySubNewestFirst(deps, n - 1)
             sid == strip(Get(deps[n], "Subscriber_ID", ""))
         IN  IF sid = "" THEN idx
             ELSE Put(idx, sid, <<n>> \o Get(idx, sid, <<>>))

\* deps_by_sub after the first n rows of deps; a row is kept by its index.
RECURSIVE depsBySub(_, _)
depsBySub(deps, n) ==
    IF n = 0 THEN EmptyDict
    ELSE LET idx == depsBySub(deps, n - 1)
             sid == strip(Get(deps[n], "Subscriber_ID", ""))
         IN  IF sid = "" THEN idx
             ELSE Put(idx, sid, Append(Get(idx, sid, <<>>), n))

\* The seven segments appended before the member loop.
\* Header segments whose ST carries the group control number.
headerSegmentsGroupInST(s, clock) ==
    << seg(<<"ISA", "00", "          ", "00", "          ", "ZZ",
             ljust15(s.sender), "ZZ", ljust15(s.receiver),
             strftimeYy(clock), strftimeHm(clock), "^", "00501", s.icn,
             "0", "P", ">">>),
       seg(<<"GS", "BE", s.sender, s.receiver, strftimeYmd(clock),
             strftimeHm(clock), s.gcn, "X", "005010X220A1">>),
       seg(<<"ST", "834", s.gcn, "005010X220A1">>),
       seg(<<"BGN", "00", s.tcn, strftimeYmd(clock), strftimeHm(clock),
             "", "", s.file_type>>),
       seg(<<"DTP", "007", "D8", s.as_of>>),
       seg(<<"N1", "P5", s.sponsor_name, "FI", s.sponsor_id>>),
       seg(<<"N1", "IN", s.payer_name, "FI", s.payer_id>>) >>

headerSegments(s, clock) ==
    << seg(<<"ISA", "00", "          ", "00", "          ", "ZZ",
             ljust15(s.sender), "ZZ", ljust15(s.receiver),
             strftimeYy(clock), strftimeHm(clock), "^", "00501", s.icn,
             "0", "P", ">">>),
       seg(<<"GS", "BE", s.sender, s.receiver, strftimeYmd(clock),
             strftimeHm(clock), s.gcn, "X", "005010X220A1">>),
       seg(<<"ST", "834", s.tcn, "005010X220A1">>),
       seg(<<"BGN", "00", s.tcn, strftimeYmd(clock), strftimeHm(clock),
             "", "", s.file_type>>),
       seg(<<"DTP", "007", "D8", s.as_of>>),
       seg(<<"N1", "P5", s.sponsor_name, "FI", s.sponsor_id>>),
       seg(<<"N1", "IN", s.payer_name, "FI", s.payer_id>>) >>

\* {"ADD":"001","CHG":"002","TERM":"024"}.get(action, "001")
maintenanceCode(action) ==
    CASE action = "ADD" -> "001"
      [] action = "CHG" -> "002"
      [] action = "TERM" -> "024"
      [] OTHER -> "001"

\* A relationship compared in any letter case.
relationshipCodeAnyCase(rel) ==
    CASE upper(rel) = "SPO" -> "01"
      [] upper(rel) = "CHD" -> "19"
      [] OTHER -> "34"

\* {"SPO":"01","CHD":"19"}.get(rel, "34")
relationshipCode(rel) ==
    CASE rel = "SPO" -> "01"
      [] rel = "CHD" -> "19"
      [] OTHER -> "34"

\* An action compared as typed: trimmed, not upper-cased.
actionOfAsTyped(row) ==
    LET a == Get(row, "Action", "")
    IN  strip(IF a = "" THEN "ADD" ELSE a)

\* _strip(row.get("Action") or "ADD").upper()
actionOf(row) ==
    LET a == Get(row, "Action", "")
    IN  upper(strip(IF a = "" THEN "ADD" ELSE a))

\* A test of the digits that forgets the length.
isSsnAnyLength(ssn) ==
    isdigit(ssn)

\* ssn.isdigit() and len(ssn) == 9
isSsn(ssn) ==
    isdigit(ssn) /\ Len(ssn) = 9

\* The first of the results that raised, in call order; NoDate when none.
firstBad(results) ==
    IF \E i \in 1..Len(results) : ~results[i].ok
    THEN results[CHOOSE i \in 1..Len(results) :
                     ~results[i].ok /\ \A j \in 1..(i - 1) : results[j].ok]
    ELSE [ok |-> TRUE, val |-> ""]

\* ValueError raised by yyyymmdd on the stripped value s.
dateError(s) ==
    [kind |-> "ValueError",
     msg |-> "Bad date '" \o s \o "' (expected YYYYMMDD or YYYY-MM-DD)"]

\* A lookup error that leaves the key out of its message.
planErrorNoKey(key) ==
    [kind |-> "KeyError", msg |-> "Plan_Key not found in Plans sheet."]

\* KeyError raised on a plan key that plan_map does not hold.
planError(key) ==
    [kind |-> "KeyError",
     msg |-> "Plan_Key '" \o key \o "' not found in Plans sheet."]

\* The three date results of a member row, in call order: dob, cov_start,
\* cov_end.
subscriberDates(v, m) ==
    << yyyymmdd(v, strip(Get(m, "Sub_DOB", ""))),
       yyyymmdd(v, strip(Get(m, "Coverage_Start", ""))),
       yyyymmdd(v, strip(Get(m, "Coverage_End", ""))) >>

\* NM1 of the subscriber.
subscriberNm1(m, sub_id) ==
    LET ssn == strip(Get(m, "Subscriber_SSN", ""))
        last == strip(Get(m, "Sub_Last", ""))
        first == strip(Get(m, "Sub_First", ""))
        middle == strip(Get(m, "Sub_Middle", ""))
    IN  IF isSsn(ssn)
        THEN seg(<<"NM1", "IL", "1", last, first, middle, "", "", "34", ssn>>)
        ELSE seg(<<"NM1", "IL", "1", last, first, middle, "", "", "ZZ", sub_id>>)

\* The segments of a subscriber appended before the plan lookup.
subscriberSegments(m, sub_id, dob, cov_start, cov_end) ==
    LET gender == strip(Get(m, "Sub_Gender", ""))
        addr1 == strip(Get(m, "Sub_Address1", ""))
        city == strip(Get(m, "Sub_City", ""))
        state == strip(Get(m, "Sub_State", ""))
        zipc == strip(Get(m, "Sub_Zip", ""))
        emp_status == strip(Get(m, "Employment_Status", ""))
        mtc == maintenanceCode(actionOf(m))
    IN  << seg(<<"INS", "Y", "18", mtc, "XN", "A", "E", "", "", emp_status>>),
           subscriberNm1(m, sub_id) >>
        \o When(addr1 # "", seg(<<"N3", addr1>>))
        \o When(city # "" \/ state # "" \/ zipc # "", seg(<<"N4", city, state, zipc>>))
        \o When(dob # "" \/ gender # "", seg(<<"DMG", "D8", dob, gender>>))
        \o When(cov_start # "", seg(<<"DTP", "356", "D8", cov_start>>))
        \o When(cov_end # "", seg(<<"DTP", "357", "D8", cov_end>>))

\* A coverage block without its HD segment.
coverageSegmentsNoHD(pm, key, tier, start, end) ==
    When(start # "", seg(<<"DTP", "348", "D8", start>>))
    \o When(end # "", seg(<<"DTP", "349", "D8", end>>))

\* The HD loop of a plan key that plan_map holds.
coverageSegments(pm, key, tier, start, end) ==
    LET pr == pm[key]
        hdline == strip(Get(pr, "HD_Insurance_Line_Code", ""))
        line == IF hdline # "" THEN hdline
                ELSE strip(Get(pr, "Benefit_Type_Code", ""))
        hddesc == strip(Get(pr, "HD_Plan_Coverage_Desc", ""))
        plan_desc == IF hddesc # "" THEN hddesc ELSE key
    IN  << seg(<<"HD", "030", "", line, plan_desc, tier>>) >>
        \o When(start # "", seg(<<"DTP", "348", "D8", start>>))
        \o When(end # "", seg(<<"DTP", "349", "D8", end>>))

\* The three date results of a dependent row, in call order: d_dob, then
\* the dependent's own coverage start and end.
dependentDates(v, d) ==
    << yyyymmdd(v, strip(Get(d, "Dep_DOB", ""))),
       yyyymmdd(v, strip(Get(d, "Coverage_Start", ""))),
       yyyymmdd(v, strip(Get(d, "Coverage_End", ""))) >>

\* No fallback: the first value, empty or not.
orElseOwn(a, b) ==
    a

\* a or b
orElse(a, b) ==
    IF a # "" THEN a ELSE b

\* NM1 of a dependent.
dependentNm1(d, sub_id) ==
    LET dep_id == strip(Get(d, "Dep_ID", ""))
        d_ssn == strip(Get(d, "Dep_SSN", ""))
        d_last == strip(Get(d, "Dep_Last", ""))
        d_first == strip(Get(d, "Dep_First", ""))
        d_mid == strip(Get(d, "Dep_Middle", ""))
        comp == IF dep_id # "" THEN sub_id \o "-" \o dep_id
                ELSE sub_id \o "-DEP"
    IN  IF isSsn(d_ssn)
        THEN seg(<<"NM1", "IL", "1", d_last, d_first, d_mid, "", "", "34", d_ssn>>)
        ELSE seg(<<"NM1", "IL", "1", d_last, d_first, d_mid, "", "", "ZZ", comp>>)

\* The segments of a dependent appended before the plan lookup.
dependentSegments(d, sub_id, d_dob, d_start, d_end) ==
    LET rel == strip(Get(d, "Relationship", ""))
        d_gender == strip(Get(d, "Dep_Gender", ""))
        d_mtc == maintenanceCode(actionOf(d))
    IN  << seg(<<"INS", "N", relationshipCode(rel), d_mtc, "XN", "A", "E">>),
           dependentNm1(d, sub_id) >>
        \o When(d_dob # "" \/ d_gender # "", seg(<<"DMG", "D8", d_dob, d_gender>>))
        \o When(d_start # "", seg(<<"DTP", "356", "D8", d_start>>))
        \o When(d_end # "", seg(<<"DTP", "357", "D8", d_end>>))

\* s.startswith("ST" + ELEM_SEP) on the rendered segment.
startsWithST(s) ==
    Len(s) >= 3 /\ SubSeq(s, 1, 3) = "ST" \o ELEM_SEP

\* next(i for i, s in enumerate(edi) if ...): the first of the positions
\* that satisfy the condition.
firstIndex(positions) ==
    CHOOSE i \in positions : \A j \in positions : i <= j

\* s == "SE_PLACEHOLDER"
isPlaceholder(s) ==
    s = "SE_PLACEHOLDER"

\* A count that leaves the SE segment itself out.
segCountExclusive(st_index, se_index) ==
    se_index - st_index

\* seg_count = (se_index - st_index) + 1
segCount(st_index, se_index) ==
    (se_index - st_index) + 1

\* A trailer whose group trailer is appended before the placeholder.
finalizedGroupFirst(segments, s) ==
    LET full == segments \o << seg(<<"GE", "1", s.gcn>>),
                               "SE_PLACEHOLDER",
                               seg(<<"IEA", "1", s.icn>>) >>
        st_index == firstIndex({i \in 1..Len(full) : startsWithST(full[i])})
        se_index == firstIndex({i \in 1..Len(full) : isPlaceholder(full[i])})
        seg_count == segCount(st_index, se_index)
    IN  [full EXCEPT ![se_index] = seg(<<"SE", ToString(seg_count), s.tcn>>)]

\* edi after the placeholder, GE and IEA are appended and the placeholder
\* is replaced by the SE segment.
finalized(segments, s) ==
    LET full == segments \o << "SE_PLACEHOLDER",
                               seg(<<"GE", "1", s.gcn>>),
                               seg(<<"IEA", "1", s.icn>>) >>
        st_index == firstIndex({i \in 1..Len(full) : startsWithST(full[i])})
        se_index == firstIndex({i \in 1..Len(full) : isPlaceholder(full[i])})
        seg_count == segCount(st_index, se_index)
    IN  [full EXCEPT ![se_index] = seg(<<"SE", ToString(seg_count), s.tcn>>)]

(***************************************************************************)
(* The run: one invocation of the transform, step by step.                 *)
(***************************************************************************)

NoFile == [exists |-> FALSE, text |-> ""]

NoError == [kind |-> "", msg |-> ""]

NoSettings ==
    [ sender |-> "", receiver |-> "", icn |-> "", gcn |-> "", tcn |-> "",
      sponsor_name |-> "", sponsor_id |-> "", payer_name |-> "",
      payer_id |-> "", file_type |-> "", as_of |-> "" ]

NoSubscriber == [sub_id |-> "", cov_start |-> "", cov_end |-> "", plan_key |-> ""]

\* No first run has ended.
NoRun == [ended |-> "", edi |-> <<>>, err |-> NoError, file |-> NoFile]

\* No other invocation.
NoInvocation ==
    [ now |-> [y |-> 0, m |-> 0, d |-> 0, H |-> 0, M |-> 0],
      pkg |-> [fault |-> "none", sheets |-> <<>>], outfile |-> NoFile,
      pc |-> "idle", tables |-> EmptyDict, st |-> NoSettings,
      plan_map |-> EmptyDict, deps_by_sub |-> EmptyDict, edi |-> <<>>,
      mi |-> 0, di |-> 0, cur |-> NoSubscriber, err |-> NoError, log |-> <<>> ]

members == tableOf(tables, "Members")

deps == tableOf(tables, "Dependents")

plans == tableOf(tables, "Plans")

\* deps_by_sub.get(sub_id, []) of the current subscriber.
curDeps == Get(deps_by_sub, cur.sub_id, <<>>)

\* A raise that would flush the segments built so far to the output.
RaiseFlushing(e, segments, entry) ==
    /\ pc' = "failed"
    /\ err' = e
    /\ edi' = segments
    /\ log' = log \o entry
    /\ outfile' = [exists |-> TRUE, text |-> joinLines(segments)]
    /\ UNCHANGED <<variant, now, pkg, tables, st, plan_map, deps_by_sub, mi,
                   di, cur, dateVars, otherVars>>

\* An exception leaves the run: nothing after the raise is executed, and in
\* particular nothing is written.  segments is edi at the raise.
Raise(e, segments, entry) ==
    /\ pc' = "failed"
    /\ err' = e
    /\ edi' = segments
    /\ log' = log \o entry
    /\ UNCHANGED <<variant, now, pkg, outfile, tables, st, plan_map,
                   deps_by_sub, mi, di, cur, dateVars, otherVars>>

\* tables = read_xlsx_tables(xlsx)
ReadTables ==
    /\ pc = "start"
    /\ IF readFault(pkg) # "none"
       THEN Raise(packageError(readFault(pkg)), edi, <<>>)
       ELSE /\ tables' = read_xlsx_tables(pkg)
            /\ pc' = "prepare"
            /\ UNCHANGED <<variant, now, pkg, outfile, st, plan_map,
                           deps_by_sub, edi, mi, di, cur, err, log, dateVars, otherVars>>

\* From the settings locals to deps_by_sub: everything before the member
\* loop.
Prepare ==
    /\ pc = "prepare"
    /\ LET s == settingsLocals(variant, settingsOf(tables), now)
       IN  IF ~s.as_of.ok
           THEN Raise(dateError(s.as_of.val), edi, <<>>)
           ELSE /\ st' = [s EXCEPT !.as_of = s.as_of.val]
                /\ plan_map' = planMap(plans, Len(plans))
                /\ edi' = headerSegments([s EXCEPT !.as_of = s.as_of.val], now)
                /\ deps_by_sub' = depsBySub(deps, Len(deps))
                /\ mi' = 1
                /\ pc' = "members"
                /\ UNCHANGED <<variant, now, pkg, outfile, tables, di, cur,
                               err, log, dateVars, otherVars>>

\* The body of "for m in members" for row m with a Subscriber_ID, up to the
\* dependents loop; dates are the results of the row's yyyymmdd calls.
SubscriberRow(m, sub_id, plan_key, dates, own) ==
    IF ~firstBad(dates).ok
    THEN Raise(dateError(firstBad(dates).val), edi,
               <<[kind |-> "sub", row |-> mi, sub |-> mi, from |-> Len(edi) + 1,
                  to |-> Len(edi), ok |-> FALSE]>>)
    ELSE IF plan_key # "" /\ plan_key \notin DOMAIN plan_map
    THEN Raise(planError(plan_key), edi \o own,
               <<[kind |-> "sub", row |-> mi, sub |-> mi, from |-> Len(edi) + 1,
                  to |-> Len(edi) + Len(own), ok |-> FALSE]>>)
    ELSE /\ edi' = edi \o own
         /\ log' = Append(log, [kind |-> "sub", row |-> mi, sub |-> mi,
                                from |-> Len(edi) + 1,
                                to |-> Len(edi) + Len(own), ok |-> TRUE])
         /\ cur' = [sub_id |-> sub_id, cov_start |-> dates[2].val,
                    cov_end |-> dates[3].val, plan_key |-> plan_key]
         /\ di' = 1
         /\ pc' = "deps"
         /\ UNCHANGED <<variant, now, pkg, outfile, tables, st, plan_map,
                        deps_by_sub, mi, err, dateVars, otherVars>>

\* The segments of row m: those appended before the plan lookup, then the
\* HD loop when the row has a plan key that plan_map holds.
subscriberBlockOf(pm, m, sub_id, plan_key, dates) ==
    subscriberSegments(m, sub_id, dates[1].val, dates[2].val, dates[3].val)
    \o (IF plan_key = "" \/ plan_key \notin DOMAIN pm THEN <<>>
        ELSE coverageSegments(pm, plan_key,
                              strip(Get(m, "Coverage_Tier_Code", "")),
                              dates[2].val, dates[3].val))

\* The segments of row m under the plan_map of the run.
subscriberBlock(m, sub_id, plan_key, dates) ==
    subscriberBlockOf(plan_map, m, sub_id, plan_key, dates)

\* A member loop that has no test of the Subscriber_ID: every row is taken
\* for a subscriber.
SubscriberNoSkip ==
    /\ pc = "members"
    /\ IF mi > Len(members)
       THEN /\ pc' = "finalize"
            /\ UNCHANGED <<variant, now, pkg, outfile, tables, st, plan_map,
                           deps_by_sub, edi, mi, di, cur, err, log, dateVars, otherVars>>
       ELSE SubscriberRow(members[mi],
                          strip(Get(members[mi], "Subscriber_ID", "")),
                          strip(Get(members[mi], "Plan_Key", "")),
                          subscriberDates(variant, members[mi]),
                          subscriberBlock(members[mi],
                                          strip(Get(members[mi], "Subscriber_ID", "")),
                                          strip(Get(members[mi], "Plan_Key", "")),
                                          subscriberDates(variant, members[mi])))

\* One pass of "for m in members", up to the dependents loop; past the last
\* row the loop ends.
Subscriber ==
    /\ pc = "members"
    /\ IF mi > Len(members)
       THEN /\ pc' = "finalize"
            /\ UNCHANGED <<variant, now, pkg, outfile, tables, st, plan_map,
                           deps_by_sub, edi, mi, di, cur, err, log, dateVars, otherVars>>
       ELSE IF strip(Get(members[mi], "Subscriber_ID", "")) = ""
       THEN /\ mi' = mi + 1
            /\ UNCHANGED <<variant, now, pkg, outfile, pc, tables, st,
                           plan_map, deps_by_sub, edi, di, cur, err, log,
                           dateVars, otherVars>>
       ELSE SubscriberRow(members[mi],
                          strip(Get(members[mi], "Subscriber_ID", "")),
                          strip(Get(members[mi], "Plan_Key", "")),
                          subscriberDates(variant, members[mi]),
                          subscriberBlock(members[mi],
                                          strip(Get(members[mi], "Subscriber_ID", "")),
                                          strip(Get(members[mi], "Plan_Key", "")),
                                          subscriberDates(variant, members[mi])))

\* The body of "for d in deps_by_sub.get(sub_id, [])" for row d; dates are
\* the results of the row's yyyymmdd calls, d_plan_key is the row's plan key
\* or else the subscriber's.
DependentRow(d_plan_key, dates, own) ==
    IF ~firstBad(dates).ok
    THEN Raise(dateError(firstBad(dates).val), edi,
               <<[kind |-> "dep", row |-> curDeps[di], sub |-> mi,
                  from |-> Len(edi) + 1, to |-> Len(edi), ok |-> FALSE]>>)
    ELSE IF d_plan_key # "" /\ d_plan_key \notin DOMAIN plan_map
    THEN Raise(planError(d_plan_key), edi \o own,
               <<[kind |-> "dep", row |-> curDeps[di], sub |-> mi,
                  from |-> Len(edi) + 1, to |-> Len(edi) + Len(own),
                  ok |-> FALSE]>>)
    ELSE /\ edi' = edi \o own
         /\ log' = Append(log, [kind |-> "dep", row |-> curDeps[di], sub |-> mi,
                                from |-> Len(edi) + 1,
                                to |-> Len(edi) + Len(own), ok |-> TRUE])
         /\ di' = di + 1
         /\ UNCHANGED <<variant, now, pkg, outfile, pc, tables, st, plan_map,
                        deps_by_sub, mi, cur, err, dateVars, otherVars>>

\* The segments of row d: those appended before the plan lookup, then the
\* HD loop when d_plan_key is a key that plan_map holds.
dependentBlockOf(pm, sub_id, d, d_start, d_end, d_plan_key, dates) ==
    dependentSegments(d, sub_id, dates[1].val, d_start, d_end)
    \o (IF d_plan_key = "" \/ d_plan_key \notin DOMAIN pm THEN <<>>
        ELSE coverageSegments(pm, d_plan_key, "", d_start, d_end))

\* The segments of row d under the plan_map and the subscriber of the run.
dependentBlock(d, d_start, d_end, d_plan_key, dates) ==
    dependentBlockOf(plan_map, cur.sub_id, d, d_start, d_end, d_plan_key, dates)

\* One pass of "for d in deps_by_sub.get(sub_id, [])"; past the last row the
\* member loop goes on.
Dependent ==
    /\ pc = "deps"
    /\ IF di > Len(curDeps)
       THEN /\ pc' = "members"
            /\ mi' = mi + 1
            /\ UNCHANGED <<variant, now, pkg, outfile, tables, st, plan_map,
                           deps_by_sub, edi, di, cur, err, log, dateVars, otherVars>>
       ELSE DependentRow(orElse(strip(Get(deps[curDeps[di]], "Plan_Key", "")),
                                cur.plan_key),
                         dependentDates(variant, deps[curDeps[di]]),
                         dependentBlock(
                             deps[curDeps[di]],
                             orElse(dependentDates(variant, deps[curDeps[di]])[2].val,
                                    cur.cov_start),
                             orElse(dependentDates(variant, deps[curDeps[di]])[3].val,
                                    cur.cov_end),
                             orElse(strip(Get(deps[curDeps[di]], "Plan_Key", "")),
                                    cur.plan_key),
                             dependentDates(variant, deps[curDeps[di]])))

\* The SE placeholder, GE, IEA, and the SE segment in the placeholder's
\* place.
Finalize ==
    /\ pc = "finalize"
    /\ edi' = finalized(edi, st)
    /\ pc' = "write"
    /\ UNCHANGED <<variant, now, pkg, outfile, tables, st, plan_map,
                   deps_by_sub, mi, di, cur, err, log, dateVars, otherVars>>

\* outp.write_text("\n".join(edi)): the last statement of the cli's main,
\* and of the app's worker after generate_834_from_xlsx has returned.
Write ==
    /\ pc = "write"
    /\ outfile' = [exists |-> TRUE, text |-> joinLines(edi)]
    /\ pc' = "done"
    /\ UNCHANGED <<variant, now, pkg, tables, st, plan_map, deps_by_sub, edi,
                   mi, di, cur, err, log, dateVars, otherVars>>

(***************************************************************************)
(* The run as a function: what one call of generate_834_from_xlsx returns  *)
(* or raises, given the package and the reading of the clock.              *)
(***************************************************************************)

\* The call returned the segments.
returned(segments) ==
    [ok |-> TRUE, edi |-> segments, err |-> NoError]

\* The call raised e.
raised(e) ==
    [ok |-> FALSE, edi |-> <<>>, err |-> e]

\* The body of "for d in deps_by_sub.get(sub_id, [])" for row d, after the
\* passes that led to before; c holds the locals of the subscriber.
dependentPass(before, pm, c, d, dates, d_plan_key) ==
    IF ~before.ok THEN before
    ELSE IF ~firstBad(dates).ok THEN raised(dateError(firstBad(dates).val))
    ELSE IF d_plan_key # "" /\ d_plan_key \notin DOMAIN pm
    THEN raised(planError(d_plan_key))
    ELSE returned(before.edi
                  \o dependentBlockOf(pm, c.sub_id, d,
                                      orElse(dates[2].val, c.cov_start),
                                      orElse(dates[3].val, c.cov_end),
                                      d_plan_key, dates))

\* The dependents loop over the first n of rows, the indices in dps that
\* deps_by_sub holds for the subscriber.
RECURSIVE dependentsLoop(_, _, _, _, _, _)
dependentsLoop(v, pm, dps, rows, c, n) ==
    IF n = 0 THEN returned(<<>>)
    ELSE dependentPass(dependentsLoop(v, pm, dps, rows, c, n - 1), pm, c,
                       dps[rows[n]], dependentDates(v, dps[rows[n]]),
                       orElse(strip(Get(dps[rows[n]], "Plan_Key", "")),
                              c.plan_key))

\* The subscriber's own segments, then what its dependents loop returned.
withDependents(before, own, inner) ==
    IF ~inner.ok THEN inner
    ELSE returned(before.edi \o own \o inner.edi)

\* The body of "for m in members" for row m, after the passes that led to
\* before.
memberPass(before, v, pm, dbs, dps, m, sub_id, plan_key, dates) ==
    IF ~before.ok THEN before
    ELSE IF sub_id = "" THEN before
    ELSE IF ~firstBad(dates).ok THEN raised(dateError(firstBad(dates).val))
    ELSE IF plan_key # "" /\ plan_key \notin DOMAIN pm
    THEN raised(planError(plan_key))
    ELSE withDependents(
             before,
             subscriberBlockOf(pm, m, sub_id, plan_key, dates),
             dependentsLoop(v, pm, dps, Get(dbs, sub_id, <<>>),
                            [sub_id |-> sub_id, cov_start |-> dates[2].val,
                             cov_end |-> dates[3].val, plan_key |-> plan_key],
                            Len(Get(dbs, sub_id, <<>>))))

\* The member loop over the first n rows of mbrs.
RECURSIVE membersLoop(_, _, _, _, _, _)
membersLoop(v, pm, dbs, mbrs, dps, n) ==
    IF n = 0 THEN returned(<<>>)
    ELSE memberPass(membersLoop(v, pm, dbs, mbrs, dps, n - 1), v, pm, dbs, dps,
                    mbrs[n], strip(Get(mbrs[n], "Subscriber_ID", "")),
                    strip(Get(mbrs[n], "Plan_Key", "")),
                    subscriberDates(v, mbrs[n]))

\* The header, what the loops appended, and the trailer.
assembled(s, clock, body) ==
    IF ~body.ok THEN body
    ELSE returned(finalized(headerSegments(s, clock) \o body.edi, s))

\* The assembler on the tables of a package: the settings locals, then the
\* loops over the tables, then the trailer.
assemble(v, s, clock, pln, mbrs, dps) ==
    IF ~s.as_of.ok THEN raised(dateError(s.as_of.val))
    ELSE assembled([s EXCEPT !.as_of = s.as_of.val], clock,
                   membersLoop(v, planMap(pln, Len(pln)),
                               depsBySub(dps, Len(dps)), mbrs, dps, Len(mbrs)))

\* generate_834_from_xlsx on tables already read.
generated(v, tbls, clock) ==
    assemble(v, settingsLocals(v, settingsOf(tbls), clock), clock,
             tableOf(tbls, "Plans"), tableOf(tbls, "Members"),
             tableOf(tbls, "Dependents"))

\* generate_834_from_xlsx(xlsx) when the clock reads clock.
generate_834_from_xlsx(v, p, clock) ==
    IF readFault(p) # "none" THEN raised(packageError(readFault(p)))
    ELSE generated(v, read_xlsx_tables(p), clock)

(***************************************************************************)
(* Input packages.  A workbook follows the template layout: Settings holds *)
(* labels in column A and values in column B under a title and a header    *)
(* row; Plans, Members and Dependents hold their headers in row 1.  Only   *)
(* cells that hold text exist in the grid.                                 *)
(***************************************************************************)

\* Most rows of the Members sheet of a drawn workbook.
MaxMembers == 2

\* Most rows of the Dependents sheet of a drawn workbook.
MaxDeps == 2

PlanHeaders ==
    <<"Plan_Key", "HD_Insurance_Line_Code", "Benefit_Type_Code",
      "HD_Plan_Coverage_Desc">>

MemberHeaders ==
    <<"Subscriber_ID", "Subscriber_SSN", "Sub_Last", "Sub_First", "Sub_Middle",
      "Sub_DOB", "Sub_Gender", "Sub_Address1", "Sub_City", "Sub_State",
      "Sub_Zip", "Employment_Status", "Action", "Coverage_Start",
      "Coverage_End", "Plan_Key", "Coverage_Tier_Code">>

DepHeaders ==
    <<"Subscriber_ID", "Dep_ID", "Relationship", "Dep_SSN", "Dep_Last",
      "Dep_First", "Dep_Middle", "Dep_DOB", "Dep_Gender", "Action",
      "Coverage_Start", "Coverage_End", "Plan_Key">>

\* The grid of a settings sheet holding the <<label, value>> rows.
kvCells(rows) ==
    [rc \in {x \in (1..Len(rows)) \X {1, 2} : rows[x[1]][x[2]] # ""} |->
        rows[rc[1]][rc[2]]]

\* The grid of a list sheet: the headers in row 1, row i of rows in row
\* i + 1.
tableCells(headers, rows) ==
    LET cols == 1..Len(headers)
        held == {x \in (1..Len(rows)) \X cols :
                    Get(rows[x[1]], headers[x[2]], "") # ""}
    IN  [rc \in ({1} \X cols) \cup {<<x[1] + 1, x[2]>> : x \in held} |->
            IF rc[1] = 1 THEN headers[rc[2]]
            ELSE rows[rc[1] - 1][headers[rc[2]]]]

SeqsUpTo(S, n) ==
    UNION {[1..k -> S] : k \in 0..n}

TitleRows ==
    << <<"Mock 834 Generator - Settings", "">>, <<"Field", "Value">> >>

\* The settings of the sample scenario: sender ABC, receiver XYZ, control
\* number 7.
SampleSettings ==
    TitleRows \o << <<"Sender_ID (ISA06)", "ABC">>,
                    <<"Receiver_ID (ISA08)", "XYZ">>,
                    <<"Interchange_Control (ISA13)", "7">>,
                    <<"As_Of_Date", "2024-01-05">> >>

SamplePlans ==
    << [Plan_Key |-> "P1", HD_Insurance_Line_Code |-> "HLT",
        Benefit_Type_Code |-> "MED", HD_Plan_Coverage_Desc |-> "GOLD PPO"],
       [Plan_Key |-> "P2", Benefit_Type_Code |-> "DEN"] >>

\* A workbook of four sheets; setName is the name of the settings sheet.
workbook(setName, setRows, memberRows, depRows) ==
    [fault |-> "none",
     sheets |-> << [name |-> setName, cells |-> kvCells(setRows)],
                   [name |-> "Plans", cells |-> tableCells(PlanHeaders, SamplePlans)],
                   [name |-> "Members", cells |-> tableCells(MemberHeaders, memberRows)],
                   [name |-> "Dependents", cells |-> tableCells(DepHeaders, depRows)] >>]

\* Packages that do not open: not a zip archive, no workbook index, no
\* relationship index, a workbook index that is not XML.
FaultyPackages ==
    {[fault |-> f, sheets |-> <<>>] :
        f \in {"notzip", "noworkbook", "norels", "badxml"}}

\* Rows about counts, joins and plan lookups.
CountMemberRows ==
    { [Subscriber_ID |-> "1001", Subscriber_SSN |-> "123456789",
       Sub_Last |-> "DOE", Sub_First |-> "JOHN", Plan_Key |-> "P1",
       Coverage_Start |-> "2024-01-01", Coverage_Tier_Code |-> "EMP"],
      [Subscriber_ID |-> "1002", Plan_Key |-> "PX"],
      [Sub_Last |-> "GHOST", Plan_Key |-> "PX", Coverage_Start |-> "never"] }

CountDepRows ==
    { [Subscriber_ID |-> "1001", Dep_ID |-> "01", Relationship |-> "SPO"],
      [Subscriber_ID |-> "1001", Plan_Key |-> "QX"],
      [Subscriber_ID |-> "1003", Plan_Key |-> "QX"],
      [Dep_ID |-> "02", Plan_Key |-> "QX", Dep_DOB |-> "unknown"] }

CountPackages ==
    {workbook("Settings", SampleSettings, ms, ds) :
        ms \in SeqsUpTo(CountMemberRows, MaxMembers),
        ds \in SeqsUpTo(CountDepRows, MaxDeps)}

\* Rows about the identity segment.
SsnValues ==
    {"", "123456789", "000000000", "12345678", "1234567890", "12345678X",
     "123-45-6789", "123 45 67"}

SsnPackages ==
    {workbook("Settings", SampleSettings,
              <<[Subscriber_ID |-> "1001", Subscriber_SSN |-> ssn]>>, ds) :
        ssn \in SsnValues,
        ds \in {<<>>} \cup
               {<<[Subscriber_ID |-> "1001", Dep_ID |-> id, Dep_SSN |-> dssn]>> :
                   id \in {"", "A"}, dssn \in {"", "987654321", "98765432"}}}

\* Rows about what a dependent inherits from its subscriber.
InheritPackages ==
    {workbook("Settings", SampleSettings,
              <<[Subscriber_ID |-> "1001", Coverage_Start |-> ms,
                 Coverage_End |-> me, Plan_Key |-> mp]>>,
              <<[Subscriber_ID |-> "1001", Coverage_Start |-> dst,
                 Coverage_End |-> de, Plan_Key |-> dp]>>) :
        ms \in {"", "2024-01-01"}, me \in {"", "20241231"}, mp \in {"", "P1"},
        dst \in {"", "3/1/2024"}, de \in {"", "2024-06-30"}, dp \in {"", "P2"}}

\* Rows about dates in every date field.
DateMemberRows ==
    {[Subscriber_ID |-> "1001", Sub_DOB |-> mdob, Coverage_Start |-> ms,
      Coverage_End |-> me] :
        mdob \in {"", "1/5/1980", "5 Jan 1980"},
        ms \in {"", "45292", "1 Jan"},
        me \in {"", "31.12.2024"}}

DateDepRows ==
    {[Subscriber_ID |-> "1001", Dep_ID |-> "01", Dep_DOB |-> ddob,
      Coverage_Start |-> dst, Coverage_End |-> de] :
        ddob \in {"", "June 2015"},
        dst \in {"", "2024-02-30", "Feb 30"},
        de \in {"", "2024/12/31"}}

DatePackages ==
    {workbook("Settings", TitleRows \o asof, <<m>>, <<>>) :
        asof \in {<<>>, << <<"As_Of_Date", "Q1 2024">> >>,
                  << <<"As_Of_Date", "45000">> >>},
        m \in DateMemberRows}
    \cup
    {workbook("Settings", TitleRows,
              <<[Subscriber_ID |-> "1001", Coverage_Start |-> ms]>>, <<d>>) :
        ms \in {"", "1 Jan"}, d \in DateDepRows}

\* Workbooks whose settings sheet is named in another letter case, or
\* that hold no settings sheet.
SettingsSheetNames == {"Settings", "settings", "SETTINGS"}

NamePackages ==
    {workbook(name, rows, <<[Subscriber_ID |-> "1001"]>>, <<>>) :
        name \in SettingsSheetNames \cup {"Setup"},
        rows \in {<<>>, TitleRows, SampleSettings}}

\* Rows about the maintenance action of subscribers and dependents.
ActionValues ==
    {"", "ADD", "CHG", "TERM", " chg ", "Term", "DROP"}

ActionPackages ==
    {workbook("Settings", SampleSettings,
              <<[Subscriber_ID |-> "1001", Action |-> a]>>, ds) :
        a \in ActionValues,
        ds \in {<<>>} \cup
               {<<[Subscriber_ID |-> "1001", Dep_ID |-> "01", Action |-> b]>> :
                   b \in ActionValues}}

\* Rows about the relationship of a dependent.
RelationValues ==
    {"", "SPO", "CHD", "spo", "Chd", " SPO ", "OTH", "SPOUSE"}

RelationPackages ==
    {workbook("Settings", SampleSettings, <<[Subscriber_ID |-> "1001"]>>,
              <<[Subscriber_ID |-> "1001", Relationship |-> r]>>) :
        r \in RelationValues}

\* Rows about the optional segments of a subscriber: each of address,
\* city, state, zip, birth date and gender is held or not; a second
\* subscriber holds an identifier and an SSN only.
FieldPackages ==
    {workbook("Settings", SampleSettings,
              <<[Subscriber_ID |-> "1001", Sub_Address1 |-> addr,
                 Sub_City |-> city, Sub_State |-> state, Sub_Zip |-> zipc,
                 Sub_DOB |-> dob, Sub_Gender |-> gender],
                [Subscriber_ID |-> "1002", Subscriber_SSN |-> "123456789"]>>,
              <<>>) :
        addr \in {"", "1 MAIN ST"}, city \in {"", "SPRINGFIELD"},
        state \in {"", "IL"}, zipc \in {"", "62701"},
        dob \in {"", "1980-01-05"}, gender \in {"", "F"}}

\* Most rows of the Dependents sheet of a workbook about order.
MaxOrderDeps == 3

\* Rows about order: two subscribers whose identifiers do not follow the
\* row order, and dependents of either in any order.
OrderDepRows ==
    { [Subscriber_ID |-> "2001", Dep_ID |-> "A", Relationship |-> "CHD"],
      [Subscriber_ID |-> "2002", Dep_ID |-> "B", Relationship |-> "SPO"],
      [Subscriber_ID |-> "2001", Dep_ID |-> "C", Plan_Key |-> "P2"] }

OrderPackages ==
    {workbook("Settings", SampleSettings,
              <<[Subscriber_ID |-> "2002", Plan_Key |-> "P1"],
                [Subscriber_ID |-> "2001"]>>, ds) :
        ds \in SeqsUpTo(OrderDepRows, MaxOrderDeps)}

\* The rows of a settings sheet for one label: none when the label is
\* absent, else the label with its text.
settingRows(label, text) ==
    IF text = "absent" THEN <<>> ELSE << <<label, text>> >>

\* Settings about control numbers: absent, blank, short, padded with
\* blanks, longer than nine characters, signed.
ControlPackages ==
    {workbook("Settings",
              TitleRows \o settingRows("Interchange_Control (ISA13)", i)
                        \o settingRows("Group_Control (GS06)", g)
                        \o settingRows("Transaction_Control (ST02)", t),
              <<[Subscriber_ID |-> "1001", Plan_Key |-> "P1",
                 Coverage_Start |-> "2024-01-01"]>>, <<>>) :
        i \in {"absent", "", "7", " 42 ", "1234567890", "-1", "+5"},
        g \in {"absent", "", "12", " 3 "},
        t \in {"absent", "", "0001", "77"}}

\* The labels the program looks up, each with a sample text.
SettingSamples ==
    << <<"Sender_ID (ISA06)", "ABC">>,
       <<"Receiver_ID (ISA08)", "XYZ">>,
       <<"Interchange_Control (ISA13)", "7">>,
       <<"Group_Control (GS06)", "12">>,
       <<"Transaction_Control (ST02)", "77">>,
       <<"Sponsor_Name (Employer)", "ACME">>,
       <<"Sponsor_ID (Employer ID)", "111">>,
       <<"Payer_Name (Carrier)", "CARE">>,
       <<"Payer_ID (Carrier ID)", "222">>,
       <<"File_Type", "change">>,
       <<"As_Of_Date", "2024-01-05">> >>

\* How a label stands in a drawn settings sheet: not at all, with no
\* value, with a value of blanks, with its sample text.
LabelStates == {"absent", "blank", "blanks", "sample"}

\* The rows of the first n labels: the labels of the set chosen stand as
\* state a says, the others as state b says.
RECURSIVE sampleRows(_, _, _, _)
sampleRows(chosen, a, b, n) ==
    IF n = 0 THEN <<>>
    ELSE LET state == IF n \in chosen THEN a ELSE b
             text == CASE state = "absent" -> "absent"
                       [] state = "blank" -> ""
                       [] state = "blanks" -> "  "
                       [] OTHER -> SettingSamples[n][2]
         IN  sampleRows(chosen, a, b, n - 1)
             \o settingRows(SettingSamples[n][1], text)

\* Settings in which one label, or the interchange control number and the
\* as-of date together, stand in one state and all other labels in another.
DefaultPackages ==
    {workbook("Settings", TitleRows \o sampleRows(chosen, a, b, Len(SettingSamples)),
              <<[Subscriber_ID |-> "1001"]>>, <<>>) :
        chosen \in {{n} : n \in 1..Len(SettingSamples)} \cup {{3, 11}},
        a \in LabelStates, b \in LabelStates}

Packages ==
    DefaultPackages \cup FaultyPackages \cup CountPackages \cup SsnPackages \cup InheritPackages
    \cup DatePackages \cup NamePackages \cup ActionPackages
    \cup RelationPackages \cup FieldPackages \cup OrderPackages
    \cup ControlPackages

\* The reading of the clock during the run.
Clock == [y |-> 2026, m |-> 11, d |-> 3, H |-> 17, M |-> 50]

(***************************************************************************)
(* Inputs of the date normalizer harness                                   *)
(***************************************************************************)

\* Longest text drawn exhaustively from DateAlphabet.
MaxDateLen == 3

DateAlphabet == {"0", "1", "9", ".", "/", "-", " ", "x"}

RECURSIVE TextsUpTo(_, _)
TextsUpTo(alphabet, n) ==
    IF n = 0 THEN {""}
    ELSE LET shorter == TextsUpTo(alphabet, n - 1)
         IN  shorter \cup {s \o c : s \in shorter, c \in alphabet}

\* Longer dates of every encoding, valid and not.
LongDates ==
    { "20240105", "20241340", "00000000", "99999999",
      "2024-01-05", "2024-13-40", "2024-1-5", " 2024-01-05 ",
      "1/5/2024", "01/05/2024", "12/31/1999", "13/45/2024", "1/5/24",
      "2024/01/05", "001/5/2024",
      "45000", "45000.5", "36526", "2958465", "2958466", "999999999",
      "20240105.5", "20240105x", "Jan 5" }

DateInputs == TextsUpTo(DateAlphabet, MaxDateLen) \cup LongDates

NoDate == [ok |-> TRUE, val |-> ""]

(***************************************************************************)
(* The date normalizer harness                                             *)
(***************************************************************************)

\* No run is under way.
IdleRun ==
    /\ now = Clock
    /\ pkg = [fault |-> "none", sheets |-> <<>>]
    /\ outfile = NoFile
    /\ pc = "idle"
    /\ tables = EmptyDict
    /\ st = NoSettings
    /\ plan_map = EmptyDict
    /\ deps_by_sub = EmptyDict
    /\ edi = <<>>
    /\ mi = 0
    /\ di = 0
    /\ cur = NoSubscriber
    /\ err = NoError
    /\ log = <<>>

\* No call of the harness is under way.
IdleDate ==
    /\ dPc = "idle"
    /\ dIn = ""
    /\ dOut = NoDate
    /\ dOut2 = NoDate

NoCell == [shared |-> <<>>, cell |-> [t |-> "", hasV |-> FALSE, v |-> ""]]

\* No call of the cell harness is under way.
IdleCell ==
    /\ cPc = "idle"
    /\ cIn = NoCell
    /\ cOut = ""

\* No rerun and no second invocation.
\* No window is open.
NoWindow ==
    [ in_var |-> "", out_var |-> "", status_var |-> "",
      btn_generate |-> "normal", btn_browse_in |-> "normal",
      btn_save_as |-> "normal", threads |-> <<>>, after |-> <<>>,
      files |-> EmptyDict, clicked |-> [in_path |-> "", out_path |-> ""],
      box |-> "" ]

IdleOther ==
    /\ run = 1
    /\ prev = NoRun
    /\ parked = NoInvocation
    /\ IdleCell
    /\ ui = NoWindow

InitDate ==
    /\ variant \in Variants
    /\ IdleRun
    /\ dPc = "in"
    /\ dIn \in DateInputs
    /\ dOut = NoDate
    /\ dOut2 = NoDate
    /\ IdleOther

\* One call of yyyymmdd on the input.
DateCall ==
    /\ dPc = "in"
    /\ dOut' = yyyymmdd(variant, dIn)
    /\ dPc' = "out"
    /\ UNCHANGED <<variant, runVars, dIn, dOut2, otherVars>>

\* A second call, on the result of a call that did not raise.
DateAgain ==
    /\ dPc = "out"
    /\ dOut.ok
    /\ dOut2' = yyyymmdd(variant, dOut.val)
    /\ dPc' = "again"
    /\ UNCHANGED <<variant, runVars, dIn, dOut, otherVars>>

NextDate ==
    \/ DateCall
    \/ DateAgain

SpecDate == InitDate /\ [][NextDate]_vars

(***************************************************************************)
(* The cell harness: parse_sheet on one cell of a worksheet                *)
(***************************************************************************)

\* Longest index text drawn exhaustively from IndexAlphabet.
MaxIndexLen == 2

IndexAlphabet == {"0", "1", "2", "-", "+", " ", "_", "x"}

\* Longer index texts: padded, signed, grouped, fractional, and past the
\* range of a machine word.
LongIndexes ==
    {" 1 ", "1_0", "+01", "-02", "-003", "1.0", "1e0", "007", "4294967296",
     "-4294967297"}

IndexTexts == TextsUpTo(IndexAlphabet, MaxIndexLen) \cup LongIndexes

\* The shared-string tables: none, and tables of one to three strings.
SharedTables ==
    {<<>>, <<"Subscriber_ID">>, <<"Subscriber_ID", "1001">>,
     <<"Subscriber_ID", "1001", "DOE">>}

\* Cells: of type 's' and of no type, with and without a v element.
Cells ==
    {[t |-> t, hasV |-> TRUE, v |-> v] : t \in {"s", ""}, v \in IndexTexts}
    \cup {[t |-> t, hasV |-> FALSE, v |-> ""] : t \in {"s", ""}}

InitCell ==
    /\ variant \in Variants
    /\ IdleRun
    /\ IdleDate
    /\ run = 1
    /\ prev = NoRun
    /\ parked = NoInvocation
    /\ ui = NoWindow
    /\ cPc = "in"
    /\ cIn \in {[shared |-> sh, cell |-> c] : sh \in SharedTables, c \in Cells}
    /\ cOut = ""

\* parse_sheet stores the value of the cell.
CellCall ==
    /\ cPc = "in"
    /\ cOut' = cellValue(cIn.shared, cIn.cell)
    /\ cPc' = "out"
    /\ UNCHANGED <<variant, runVars, dateVars, run, prev, parked, cIn, ui>>

NextCell ==
    CellCall

SpecCell == InitCell /\ [][NextCell]_vars

(***************************************************************************)
(* The transform                                                           *)
(***************************************************************************)

Init ==
    /\ variant \in Variants
    /\ now = Clock
    /\ pkg \in Packages
    /\ outfile = NoFile
    /\ pc = "start"
    /\ tables = EmptyDict
    /\ st = NoSettings
    /\ plan_map = EmptyDict
    /\ deps_by_sub = EmptyDict
    /\ edi = <<>>
    /\ mi = 0
    /\ di = 0
    /\ cur = NoSubscriber
    /\ err = NoError
    /\ log = <<>>
    /\ IdleDate
    /\ IdleOther

Next ==
    \/ ReadTables
    \/ Prepare
    \/ Subscriber
    \/ Dependent
    \/ Finalize
    \/ Write

Spec == Init /\ [][Next]_vars

(***************************************************************************)
(* The reader alone: read_xlsx_tables on packages whose parts are present, *)
(* absent or malformed one by one, and on grids that put the projections   *)
(* of the settings sheet and of a list sheet to work.                      *)
(***************************************************************************)

PartFaults == {"none", "notzip", "noworkbook", "norels", "badxml", "badrels"}

SharedStates == {"ok", "absent", "malformed"}

PartStates == {"ok", "absent", "malformed", "chart", "norel"}

\* A declared sheet whose target leads to part; only a part that is read
\* has cells.
declared(name, cells, part) ==
    [name |-> name, cells |-> IF part = "ok" THEN cells ELSE <<>>,
     part |-> part]

\* Workbooks that declare a Members sheet and a Graph sheet, every state of
\* the two targets against every state of the shared strings and of the
\* two indexes.
PartPackages ==
    {[fault |-> f, shared |-> sh,
      sheets |-> << declared("Members",
                             tableCells(<<"Subscriber_ID">>,
                                        <<[Subscriber_ID |-> "1001"]>>), a),
                    declared("Graph", kvCells(<< <<"x", "1">> >>), b) >>] :
        f \in PartFaults, sh \in SharedStates, a \in PartStates,
        b \in PartStates}

\* Most rows of a drawn grid.
MaxGridRows == 3

\* The rows of the drawn settings grids: labels that differ only by the
\* blanks around them, labels in another letter case than the placeholders,
\* blank labels and blank values.
SettingsGridRows ==
    {<<"A", "1">>, <<" A ", " 2 ">>, <<"A", "">>, <<"B", "1">>, <<"", "1">>,
     <<"FIELD", "1">>, <<"Mock 834 Generator - Settings", "">>}

\* Workbooks of one settings sheet holding up to MaxGridRows rows.
SettingsGridPackages ==
    {[fault |-> "none",
      sheets |-> << [name |-> "Settings", cells |-> kvCells(rows)] >>] :
        rows \in SeqsUpTo(SettingsGridRows, MaxGridRows)}

\* The header rows of the drawn list grids, two columns wide: empty
\* headers, a header twice, headers with blanks around them.
HeaderPairs ==
    {"", "A", " B "} \X {"", "A", " B "}

\* The data rows of the drawn list grids: no cell, a cell of blanks, text.
ValuePairs ==
    {"", " ", "x"} \X {"", " y "}

\* Workbooks of one list sheet: a header row and up to MaxGridRows - 1
\* data rows.
ListGridPackages ==
    {[fault |-> "none",
      sheets |-> << [name |-> "Members",
                     cells |-> kvCells(<<h>> \o rows)] >>] :
        h \in HeaderPairs, rows \in SeqsUpTo(ValuePairs, MaxGridRows - 1)}

ReadPackages ==
    PartPackages \cup SettingsGridPackages \cup ListGridPackages

InitRead ==
    /\ variant \in Variants
    /\ now = Clock
    /\ pkg \in ReadPackages
    /\ outfile = NoFile
    /\ pc = "start"
    /\ tables = EmptyDict
    /\ st = NoSettings
    /\ plan_map = EmptyDict
    /\ deps_by_sub = EmptyDict
    /\ edi = <<>>
    /\ mi = 0
    /\ di = 0
    /\ cur = NoSubscriber
    /\ err = NoError
    /\ log = <<>>
    /\ IdleDate
    /\ IdleOther

NextRead ==
    ReadTables

SpecRead == InitRead /\ [][NextRead]_vars

(***************************************************************************)
(* The transform run again in the same process on the same package with    *)
(* the same reading of the clock.  The locals of a call do not outlive it:  *)
(* the second call assigns each of them before it reads it, and what the    *)
(* variables still hold from the first call is never looked at.             *)
(***************************************************************************)

\* The first run has ended; the transform is called again.
Again ==
    /\ pc \in {"done", "failed"}
    /\ run = 1
    /\ run' = 2
    /\ prev' = [ended |-> pc, edi |-> edi, err |-> err, file |-> outfile]
    /\ pc' = "start"
    /\ err' = NoError
    /\ log' = <<>>
    /\ UNCHANGED <<variant, now, pkg, outfile, tables, st, plan_map,
                   deps_by_sub, edi, mi, di, cur, dateVars, parked, cellVars, ui>>

\* The packages that are run twice: those that do not open, and those
\* about inheritance, dates, order and actions.
TwicePackages ==
    FaultyPackages \cup InheritPackages \cup DatePackages \cup OrderPackages
    \cup ActionPackages

InitTwice ==
    /\ variant \in Variants
    /\ now = Clock
    /\ pkg \in TwicePackages
    /\ outfile = NoFile
    /\ pc = "start"
    /\ tables = EmptyDict
    /\ st = NoSettings
    /\ plan_map = EmptyDict
    /\ deps_by_sub = EmptyDict
    /\ edi = <<>>
    /\ mi = 0
    /\ di = 0
    /\ cur = NoSubscriber
    /\ err = NoError
    /\ log = <<>>
    /\ IdleDate
    /\ IdleOther

NextTwice ==
    \/ Next
    \/ Again

SpecTwice == InitTwice /\ [][NextTwice]_vars

(***************************************************************************)
(* Two invocations of the transform at once, each on its own package and   *)
(* its own output target.  One holds the processor and its locals are the  *)
(* variables of the run; the locals and the target of the other are        *)
(* parked.  The scheduler may pass the processor between any two steps.    *)
(***************************************************************************)

\* The locals and the target of the invocation that holds the processor.
running ==
    [ now |-> now, pkg |-> pkg, outfile |-> outfile, pc |-> pc,
      tables |-> tables, st |-> st, plan_map |-> plan_map,
      deps_by_sub |-> deps_by_sub, edi |-> edi, mi |-> mi, di |-> di,
      cur |-> cur, err |-> err, log |-> log ]

\* A switch under which the segment list is one list for both invocations.
SwitchSharingSegments ==
    /\ parked.pc \notin {"idle", "done", "failed"}
    /\ parked' = running
    /\ now' = parked.now
    /\ pkg' = parked.pkg
    /\ outfile' = parked.outfile
    /\ pc' = parked.pc
    /\ tables' = parked.tables
    /\ st' = parked.st
    /\ plan_map' = parked.plan_map
    /\ deps_by_sub' = parked.deps_by_sub
    /\ mi' = parked.mi
    /\ di' = parked.di
    /\ cur' = parked.cur
    /\ err' = parked.err
    /\ log' = parked.log
    /\ UNCHANGED <<variant, edi, dateVars, run, prev, cellVars, ui>>

\* The processor passes to the other invocation, which has a step to take.
Switch ==
    /\ parked.pc \notin {"idle", "done", "failed"}
    /\ parked' = running
    /\ now' = parked.now
    /\ pkg' = parked.pkg
    /\ outfile' = parked.outfile
    /\ pc' = parked.pc
    /\ tables' = parked.tables
    /\ st' = parked.st
    /\ plan_map' = parked.plan_map
    /\ deps_by_sub' = parked.deps_by_sub
    /\ edi' = parked.edi
    /\ mi' = parked.mi
    /\ di' = parked.di
    /\ cur' = parked.cur
    /\ err' = parked.err
    /\ log' = parked.log
    /\ UNCHANGED <<variant, dateVars, run, prev, cellVars, ui>>

\* The packages of two invocations: two that give a file, from different
\* subscribers and dependents, one that ends on a date, one that ends on a
\* plan key after a subscriber, one that does not open.
PairPackages ==
    { workbook("Settings", SampleSettings,
               <<[Subscriber_ID |-> "1001", Subscriber_SSN |-> "123456789",
                  Plan_Key |-> "P1", Coverage_Start |-> "2024-01-01"]>>,
               <<[Subscriber_ID |-> "1001", Dep_ID |-> "01",
                  Relationship |-> "SPO"]>>),
      workbook("Settings", TitleRows,
               <<[Subscriber_ID |-> "2002", Action |-> "TERM"],
                 [Subscriber_ID |-> "2001", Plan_Key |-> "P2"]>>,
               <<[Subscriber_ID |-> "2001", Dep_ID |-> "A",
                  Relationship |-> "CHD"],
                 [Subscriber_ID |-> "2002", Dep_ID |-> "B"]>>),
      workbook("Settings", SampleSettings,
               <<[Subscriber_ID |-> "3001", Coverage_Start |-> "1 Jan"]>>,
               <<>>),
      workbook("Settings", SampleSettings,
               <<[Subscriber_ID |-> "4001"],
                 [Subscriber_ID |-> "4002", Plan_Key |-> "PX"]>>,
               <<[Subscriber_ID |-> "4001", Dep_ID |-> "01"]>>),
      [fault |-> "notzip", sheets |-> <<>>] }

InitPair ==
    /\ variant \in Variants
    /\ now = Clock
    /\ pkg \in PairPackages
    /\ outfile = NoFile
    /\ pc = "start"
    /\ tables = EmptyDict
    /\ st = NoSettings
    /\ plan_map = EmptyDict
    /\ deps_by_sub = EmptyDict
    /\ edi = <<>>
    /\ mi = 0
    /\ di = 0
    /\ cur = NoSubscriber
    /\ err = NoError
    /\ log = <<>>
    /\ IdleDate
    /\ run = 1
    /\ prev = NoRun
    /\ parked \in {[NoInvocation EXCEPT !.now = Clock, !.pkg = q, !.pc = "start"] :
                       q \in PairPackages}
    /\ IdleCell
    /\ ui = NoWindow

NextPair ==
    \/ Next
    \/ Switch

SpecPair == InitPair /\ [][NextPair]_vars

(***************************************************************************)
(* The threaded desktop forms: the window of the one-file app, whose       *)
(* worker thread calls generate_834_from_xlsx, and the window of the       *)
(* no-libs wrapper, whose worker thread runs the command-line generator as *)
(* a child process.  variant tells the generator behind the form.  The     *)
(* user types into the two entries at any time and clicks the buttons that *)
(* are enabled; the worker thread and the callbacks of the event loop take *)
(* their steps in between.                                                 *)
(***************************************************************************)

\* Most workers and pending callbacks a window is followed to.
MaxWorkers == 2

\* What lies at the input paths of the desktop: a workbook that generates
\* and one whose coverage date does not parse.  The empty text is the
\* current directory, as Path("") is.
Desktop ==
    ("a.xlsx" :> workbook("Settings", SampleSettings,
                          <<[Subscriber_ID |-> "1001"]>>, <<>>))
    @@ ("bad.xlsx" :> workbook("Settings", TitleRows,
                               <<[Subscriber_ID |-> "1001",
                                  Coverage_Start |-> "1 Jan"]>>, <<>>))

\* The directories of the desktop.
Directories == {""}

\* The paths the user types: the entry left empty, the two workbooks, a
\* file that is not there.
InPaths == {"", "a.xlsx", "bad.xlsx", "gone.xlsx"}

\* The output paths the user types or picks: the entry left empty, a file
\* of the current directory, a file of a folder that is not there.
OutPaths == {"", "out.txt", "nodir/out.txt"}

\* The position of the last c in s; 0 when there is none.
RECURSIVE lastIndexOf(_, _)
lastIndexOf(s, c) ==
    IF s = "" THEN 0
    ELSE IF ch(s, Len(s)) = c THEN Len(s)
    ELSE lastIndexOf(SubSeq(s, 1, Len(s) - 1), c)

\* Path(p).name
nameOf(p) ==
    SubSeq(p, lastIndexOf(p, "/") + 1, Len(p))

\* Path(p).parent, "" standing for the current directory.
parentOf(p) ==
    IF lastIndexOf(p, "/") = 0 THEN ""
    ELSE SubSeq(p, 1, lastIndexOf(p, "/") - 1)

\* Path(p).suffix: the name from its last dot, unless the name begins
\* there.
suffixOf(p) ==
    IF lastIndexOf(nameOf(p), ".") <= 1 THEN ""
    ELSE SubSeq(nameOf(p), lastIndexOf(nameOf(p), "."), Len(nameOf(p)))

\* Path(p).stem
stemOf(p) ==
    SubSeq(nameOf(p), 1, Len(nameOf(p)) - Len(suffixOf(p)))

\* Path(p).exists()
exists(p, files) ==
    p \in DOMAIN Desktop \cup Directories \cup DOMAIN files

\* str(Path(path).with_suffix("").with_name(Path(path).stem + "_834.txt"))
default_out(path) ==
    (IF parentOf(path) = "" THEN "" ELSE parentOf(path) \o "/")
    \o stemOf(path) \o "_834.txt"

\* The warning of generate for the paths, "" when they pass.
warning(v, in_path, out_path, files) ==
    IF ~exists(in_path, files) THEN "Pick a valid input .xlsx file."
    ELSE IF lower(suffixOf(in_path)) # ".xlsx"
         THEN IF v = "app" THEN "This app supports .xlsx only."
              ELSE "No-libs mode supports .xlsx only (not .xls, .xlsm, etc.)."
    ELSE IF ~(parentOf(out_path) \in Directories)
         THEN "Output folder does not exist."
    ELSE ""

\* What the generator of each program does with each workbook of the
\* desktop when the clock reads Clock, as it does throughout.
Outcomes ==
    [v \in Variants |->
        [p \in DOMAIN Desktop |-> generate_834_from_xlsx(v, Desktop[p], Clock)]]

\* What the generator of program v does at an input path: anything that
\* is no workbook of the desktop is no zip archive.
generatorAt(v, in_path) ==
    IF in_path \in DOMAIN Desktop THEN Outcomes[v][in_path]
    ELSE raised(packageError("notzip"))

\* set_running that leaves the Generate button as it is.
set_runningButGenerate(w, busy) ==
    [w EXCEPT !.btn_browse_in = IF busy THEN "disabled" ELSE "normal",
              !.btn_save_as = IF busy THEN "disabled" ELSE "normal"]

\* set_running(running) on window w; busy is its argument.
set_running(w, busy) ==
    [w EXCEPT !.btn_generate = IF busy THEN "disabled" ELSE "normal",
              !.btn_browse_in = IF busy THEN "disabled" ELSE "normal",
              !.btn_save_as = IF busy THEN "disabled" ELSE "normal"]

\* A worker that reads the two variables of the window when it runs.
workerPathsNow(w, t) ==
    [in_path |-> w.in_var, out_path |-> w.out_var]

\* The paths thread t of window w works on: the locals in_path and
\* out_path of the call of generate that started it.
workerPaths(w, t) ==
    [in_path |-> t.in_path, out_path |-> t.out_path]

\* The window when the program starts.
InitGui ==
    /\ variant \in Variants
    /\ IdleRun
    /\ IdleDate
    /\ run = 1
    /\ prev = NoRun
    /\ parked = NoInvocation
    /\ IdleCell
    /\ ui = [NoWindow EXCEPT !.status_var = "Ready."]

\* The user types a path into the input entry.
TypeIn ==
    /\ \E p \in InPaths : ui' = [ui EXCEPT !.in_var = p]
    /\ UNCHANGED <<variant, runVars, dateVars, run, prev, parked, cellVars>>

\* The user types a path into the output entry.
TypeOut ==
    /\ \E p \in OutPaths : ui' = [ui EXCEPT !.out_var = p]
    /\ UNCHANGED <<variant, runVars, dateVars, run, prev, parked, cellVars>>

\* choose_in: the dialog returns a file of the desktop, or "" when it is
\* cancelled.
choose_in ==
    /\ ui.btn_browse_in = "normal"
    /\ \E path \in {""} \cup DOMAIN Desktop :
           ui' = IF path # ""
                 THEN [ui EXCEPT !.in_var = path,
                                 !.out_var = default_out(path)]
                 ELSE ui
    /\ UNCHANGED <<variant, runVars, dateVars, run, prev, parked, cellVars>>

\* choose_out
choose_out ==
    /\ ui.btn_save_as = "normal"
    /\ \E path \in OutPaths :
           ui' = IF path # "" THEN [ui EXCEPT !.out_var = path] ELSE ui
    /\ UNCHANGED <<variant, runVars, dateVars, run, prev, parked, cellVars>>

\* The window after generate found the paths good: the controls are
\* disabled and a worker thread is started with the paths.
started(w, v, in_path, out_path) ==
    [set_running(w, TRUE) EXCEPT
        !.status_var = IF v = "app" THEN "Generating..."
                       ELSE "Generating... (UI stays responsive)",
        !.threads = Append(w.threads,
                           [in_path |-> in_path, out_path |-> out_path,
                            at |-> "run", rc |-> 0]),
        !.clicked = [in_path |-> in_path, out_path |-> out_path]]

\* generate: a click on the Generate button while it is enabled.
generate ==
    /\ ui.btn_generate = "normal"
    /\ Len(ui.threads) + Len(ui.after) < MaxWorkers
    /\ ui' = IF warning(variant, ui.in_var, ui.out_var, ui.files) # ""
             THEN [ui EXCEPT !.box = warning(variant, ui.in_var, ui.out_var,
                                             ui.files)]
             ELSE started(ui, variant, ui.in_var, ui.out_var)
    /\ UNCHANGED <<variant, runVars, dateVars, run, prev, parked, cellVars>>

\* The window after thread i ran the generator on paths: the file is
\* written when the run returns and the output path is no directory; rc
\* is 0 then and 1 otherwise (the exception caught in the app, the exit
\* status of the child process in the wrapper).
ran(w, i, paths, result) ==
    IF result.ok /\ paths.out_path \notin Directories
    THEN [w EXCEPT !.threads[i].at = "post", !.threads[i].rc = 0,
                   !.files = Put(w.files, paths.out_path,
                                 joinLines(result.edi))]
    ELSE [w EXCEPT !.threads[i].at = "post", !.threads[i].rc = 1]

\* worker, up to the outcome rc.
worker ==
    /\ \E i \in 1..Len(ui.threads) :
           /\ ui.threads[i].at = "run"
           /\ ui' = ran(ui, i, workerPaths(ui, ui.threads[i]),
                        generatorAt(variant,
                                    workerPaths(ui, ui.threads[i]).in_path))
    /\ UNCHANGED <<variant, runVars, dateVars, run, prev, parked, cellVars>>

\* The sequence without its i-th element.
without(q, i) ==
    SubSeq(q, 1, i - 1) \o SubSeq(q, i + 1, Len(q))

\* worker: root.after(0, finish); the thread ends.
post ==
    /\ \E i \in 1..Len(ui.threads) :
           /\ ui.threads[i].at = "post"
           /\ ui' = [ui EXCEPT !.threads = without(ui.threads, i),
                               !.after = Append(ui.after, ui.threads[i])]
    /\ UNCHANGED <<variant, runVars, dateVars, run, prev, parked, cellVars>>

\* finish: the event loop runs the first pending callback.
finish ==
    /\ ui.after # <<>>
    /\ ui' = [set_running(ui, FALSE) EXCEPT
                 !.after = Tail(ui.after),
                 !.status_var = IF Head(ui.after).rc = 0 THEN "Done."
                                ELSE "Error.",
                 !.box = IF Head(ui.after).rc = 0 THEN "showinfo"
                         ELSE "showerror"]
    /\ UNCHANGED <<variant, runVars, dateVars, run, prev, parked, cellVars>>

NextGui ==
    \/ TypeIn
    \/ TypeOut
    \/ choose_in
    \/ choose_out
    \/ generate
    \/ worker
    \/ post
    \/ finish

\* A started thread runs to its end, and the event loop, which runs as
\* long as the window is open, gets to every callback handed to it.
SpecGui ==
    /\ InitGui
    /\ [][NextGui]_vars
    /\ WF_vars(worker)
    /\ WF_vars(post)
    /\ WF_vars(finish)

(***************************************************************************)
(* Reading a run back: what the properties look at                         *)
(***************************************************************************)

\* Whether text sub occurs in text s.
contains(s, sub) ==
    \E i \in 1..(Len(s) - Len(sub) + 1) : SubSeq(s, i, i + Len(sub) - 1) = sub

\* The parts of text s between the occurrences of the character sep.
RECURSIVE split(_, _)
split(s, sep) ==
    LET i == indexOf(s, sep)
    IN  IF i = 0 THEN <<s>>
        ELSE <<SubSeq(s, 1, i - 1)>> \o split(SubSeq(s, i + 1, Len(s)), sep)

\* The elements of a rendered segment, the segment id first.
elementsOf(s) ==
    split(SubSeq(s, 1, Len(s) - 1), ELEM_SEP)

\* The n-th element of a rendered segment; "" past the last one.
element(s, n) ==
    IF n <= Len(elementsOf(s)) THEN elementsOf(s)[n] ELSE ""

\* Whether text s begins with text prefix.
isSeg(s, prefix) ==
    Len(s) >= Len(prefix) /\ SubSeq(s, 1, Len(prefix)) = prefix

\* The positions of the segments of a sequence that begin with prefix.
indices(segments, prefix) ==
    {i \in 1..Len(segments) : isSeg(segments[i], prefix)}

\* The segments a logged record appended that begin with prefix, in order.
matching(e, prefix) ==
    SelectSeq(SubSeq(edi, e.from, e.to), LAMBDA s : isSeg(s, prefix))

nineDigits(s) ==
    Len(s) = 9 /\ \A k \in 1..9 : ch(s, k) \in Digits

eightDigits(s) ==
    Len(s) = 8 /\ \A k \in 1..8 : ch(s, k) \in Digits

idOf(row) ==
    strip(Get(row, "Subscriber_ID", ""))

ownKey(row) ==
    strip(Get(row, "Plan_Key", ""))

\* The keys of the Plans table.
PlanKeys ==
    {ownKey(plans[j]) : j \in 1..Len(plans)} \ {""}

\* The row carries a plan key that the Plans table does not hold.
unresolved(row) ==
    ownKey(row) # "" /\ ownKey(row) \notin PlanKeys

\* The description the HD segment of a plan key carries.
planDesc(key) ==
    LET j == Max({k \in 1..Len(plans) : ownKey(plans[k]) = key})
        desc == strip(Get(plans[j], "HD_Plan_Coverage_Desc", ""))
    IN  IF desc # "" THEN desc ELSE key

datesParse(results) ==
    \A i \in 1..Len(results) : results[i].ok

\* The run ended with a lookup error whose message names the key and the
\* Plans sheet.
lookupErrorNaming(key) ==
    /\ pc = "failed"
    /\ err.kind = "KeyError"
    /\ contains(err.msg, "'" \o key \o "'")
    /\ contains(err.msg, "Plans sheet")

\* The lines of the output file.
outputLines ==
    split(outfile.text, "\n")

(***************************************************************************)
(* Properties                                                              *)
(***************************************************************************)

\* C1: in every generated segment sequence, and in the lines of the file
\* written from it, there is one ST and one SE segment and the first data
\* element of SE is (index of SE - index of ST) + 1, whatever records were
\* emitted.
C1_TrailerCount ==
    pc \in {"write", "done"} =>
        LET produced == IF pc = "done" THEN outputLines ELSE edi
            sts == indices(produced, "ST*")
            ses == indices(produced, "SE*")
        IN  /\ Cardinality(sts) = 1
            /\ Cardinality(ses) = 1
            /\ \A i \in sts, j \in ses :
                   element(produced[j], 2) = ToString((j - i) + 1)

\* A file was written from a run that emitted a subscriber and a dependent.
C1_Witness ==
    /\ pc = "done"
    /\ \E i, j \in 1..Len(log) : log[i].kind = "sub" /\ log[j].kind = "dep"

\* C2: a run that fails leaves the output target as it was, and the output
\* is written only from the whole sequence: at the end of the run, as the
\* joined text of edi, in which the SE segment has taken the placeholder's
\* place.
C2_NoPartialOutput ==
    /\ pc = "failed" => outfile = NoFile
    /\ outfile # NoFile =>
           /\ pc = "done"
           /\ outfile.text = joinLines(edi)
           /\ indices(edi, "SE*") # {}
           /\ \A i \in 1..Len(edi) : edi[i] # "SE_PLACEHOLDER"

\* A run failed on a plan lookup after segments of records were appended.
C2_Witness ==
    /\ pc = "failed"
    /\ err.kind = "KeyError"
    /\ Len(edi) > 7
    /\ outfile = NoFile

\* C3, as stated: a Dependents row whose own Plan_Key is non-empty and is no
\* key of the Plans table ends the run with a lookup error whatever its
\* Subscriber_ID is, so no run over such a table gets to its output.
C3_AnyDependent ==
    pc \in {"write", "done"} =>
        \A i \in 1..Len(deps) : ~unresolved(deps[i])

\* C3, amended: a run completes over such a row only when the row's
\* Subscriber_ID is empty or is that of no Members row; and when the
\* dependents loop reaches such a row and the row's dates parse, the run
\* ends there with a lookup error naming the key and the Plans sheet, and
\* nothing is written.
C3_JoinedDependent ==
    /\ pc = "done" =>
           \A i \in 1..Len(deps) :
               unresolved(deps[i]) =>
                   \/ idOf(deps[i]) = ""
                   \/ \A k \in 1..Len(members) : idOf(members[k]) # idOf(deps[i])
    /\ \A n \in 1..Len(log) :
           ( /\ log[n].kind = "dep"
             /\ unresolved(deps[log[n].row])
             /\ datesParse(dependentDates(variant, deps[log[n].row])) )
           => /\ ~log[n].ok
              /\ lookupErrorNaming(ownKey(deps[log[n].row]))
              /\ outfile = NoFile

\* The run failed at a dependent whose own plan key is in no Plans row.
C3_Witness ==
    /\ pc = "failed"
    /\ err.kind = "KeyError"
    /\ Len(log) > 0
    /\ log[Len(log)].kind = "dep"
    /\ unresolved(deps[log[Len(log)].row])

\* C4: a subscriber with a plan key is emitted only with exactly one HD
\* segment of its own, its key being a key of the Plans table; when the key
\* is absent the subscriber's row ends the run, by the lookup error naming
\* the key when the row's dates parse; and a run that completes has emitted
\* every Members row that has a Subscriber_ID and a Plan_Key.
C4_SubscriberPlan ==
    /\ \A n \in 1..Len(log) :
           (log[n].kind = "sub" /\ ownKey(members[log[n].row]) # "") =>
               LET m == members[log[n].row]
               IN  /\ log[n].ok =>
                          /\ ownKey(m) \in PlanKeys
                          /\ Len(matching(log[n], "HD*")) = 1
                   /\ ownKey(m) \notin PlanKeys =>
                          /\ ~log[n].ok
                          /\ pc = "failed"
                          /\ datesParse(subscriberDates(variant, m)) =>
                                 lookupErrorNaming(ownKey(m))
    /\ pc = "done" =>
           \A k \in 1..Len(members) :
               (idOf(members[k]) # "" /\ ownKey(members[k]) # "") =>
                   \E n \in 1..Len(log) :
                       log[n].kind = "sub" /\ log[n].row = k /\ log[n].ok

\* A file was written from a run that emitted a subscriber with a plan key.
C4_Witness ==
    /\ pc = "done"
    /\ \E n \in 1..Len(log) :
           /\ log[n].kind = "sub"
           /\ log[n].ok
           /\ ownKey(members[log[n].row]) # ""

\* C5: the NM1 segment of every subscriber that appended segments carries
\* qualifier 34 and the SSN when Subscriber_SSN is exactly 9 digits, and
\* qualifier ZZ and the Subscriber_ID for every other value; and no
\* subscriber ends the run except by a date that does not parse or a plan
\* key that does not resolve.
C5_IdentityQualifier ==
    \A n \in 1..Len(log) :
        log[n].kind = "sub" =>
            LET m == members[log[n].row]
                ssn == strip(Get(m, "Subscriber_SSN", ""))
                nm1 == matching(log[n], "NM1*")
            IN  /\ log[n].to >= log[n].from =>
                       /\ Len(nm1) = 1
                       /\ IF nineDigits(ssn)
                          THEN element(nm1[1], 9) = "34" /\ element(nm1[1], 10) = ssn
                          ELSE element(nm1[1], 9) = "ZZ" /\ element(nm1[1], 10) = idOf(m)
                /\ ~log[n].ok =>
                       \/ ~datesParse(subscriberDates(variant, m))
                       \/ unresolved(m)

\* A file was written from a run that emitted a subscriber whose SSN is ten
\* characters long.
C5_Witness ==
    /\ pc = "done"
    /\ \E n \in 1..Len(log) :
           /\ log[n].kind = "sub"
           /\ log[n].ok
           /\ Len(strip(Get(members[log[n].row], "Subscriber_SSN", ""))) = 10

\* C6: for every emitted dependent, coverage start, coverage end and plan
\* key are each the dependent's own value when it is not empty and the
\* owning subscriber's otherwise; DTP 356, DTP 357 and the HD segment with
\* its DTP 348 and DTP 349 are rendered from these values, and none is
\* emitted for a value that is empty.
C6_DependentFallback ==
    \A n \in 1..Len(log) :
        (log[n].kind = "dep" /\ log[n].ok) =>
            LET d == deps[log[n].row]
                m == members[log[n].sub]
                own == dependentDates(variant, d)
                sub == subscriberDates(variant, m)
                start == IF own[2].val # "" THEN own[2].val ELSE sub[2].val
                end == IF own[3].val # "" THEN own[3].val ELSE sub[3].val
                key == IF ownKey(d) # "" THEN ownKey(d) ELSE ownKey(m)
                dtp(q, date) == IF date = "" THEN <<>>
                                ELSE <<"DTP*" \o q \o "*D8*" \o date \o "~">>
                hd == matching(log[n], "HD*")
            IN  /\ matching(log[n], "DTP*356*") = dtp("356", start)
                /\ matching(log[n], "DTP*357*") = dtp("357", end)
                /\ IF key = ""
                   THEN /\ hd = <<>>
                        /\ matching(log[n], "DTP*348*") = <<>>
                        /\ matching(log[n], "DTP*349*") = <<>>
                   ELSE /\ Len(hd) = 1
                        /\ element(hd[1], 5) = planDesc(key)
                        /\ matching(log[n], "DTP*348*") = dtp("348", start)
                        /\ matching(log[n], "DTP*349*") = dtp("349", end)

\* A dependent without a coverage start and a plan key of its own was
\* emitted under a subscriber that has both.
C6_Witness ==
    \E n \in 1..Len(log) :
        /\ log[n].kind = "dep"
        /\ log[n].ok
        /\ strip(Get(deps[log[n].row], "Coverage_Start", "")) = ""
        /\ ownKey(deps[log[n].row]) = ""
        /\ strip(Get(members[log[n].sub], "Coverage_Start", "")) # ""
        /\ ownKey(members[log[n].sub]) # ""

\* C7: in both programs, yyyymmdd of a numeric, optionally fractional text
\* that is not 8 digits does not raise and returns the date that many days
\* after 1899-12-30, as 8 digits.
C7_DayCount ==
    (dPc \in {"out", "again"} /\ isNumeric(dIn) /\ ~eightDigits(dIn)) =>
        /\ dOut.ok
        /\ eightDigits(dOut.val)
        /\ dOut.val = strftimeYmd(ord2ymd(EpochOrdinal + wholeDays(dIn)))

\* C8: yyyymmdd returns a text of 8 digits as it is; a result of yyyymmdd
\* is empty or 8 digits, and yyyymmdd of a result is that result.
C8_PassThroughIdempotent ==
    /\ (dPc \in {"out", "again"} /\ eightDigits(dIn)) =>
           dOut = [ok |-> TRUE, val |-> dIn]
    /\ (dPc \in {"out", "again"} /\ dOut.ok) =>
           dOut.val = "" \/ eightDigits(dOut.val)
    /\ dPc = "again" => dOut2 = dOut

\* yyyymmdd was applied twice to 8 digits that are a day count but no
\* calendar date.
C8_Witness ==
    /\ dPc = "again"
    /\ dIn = "00000000"
    /\ dOut2.val = "00000000"

\* The names of the fields that hold dates.
DateFields ==
    {"As_Of_Date", "Sub_DOB", "Coverage_Start", "Coverage_End", "Dep_DOB"}

\* The values of the date fields of a row.
dateValues(row) ==
    {strip(Get(row, f, "")) : f \in DateFields}

\* C9: the error of a run that a date ends names the value of a date field
\* that does not parse, and names a date field.
C9_NamesValueAndField ==
    (pc = "failed" /\ err.kind = "ValueError") =>
        /\ \E x \in UNION ( {dateValues(settingsOf(tables))}
                            \cup {dateValues(members[k]) : k \in 1..Len(members)}
                            \cup {dateValues(deps[k]) : k \in 1..Len(deps)} ) :
               ~yyyymmdd(variant, x).ok /\ contains(err.msg, "'" \o x \o "'")
        /\ \E f \in DateFields : contains(err.msg, f)

\* The rows of a worksheet grid whose label cell holds label.
labelRows(cells, label) ==
    {rc[1] : rc \in {x \in DOMAIN cells : x[2] = 1 /\ strip(cells[x]) = label}}

\* C10: once the settings are read, the sender and the receiver are those of
\* the sheet named Settings in any letter case, when that sheet gives them.
C10_SettingsAnyCase ==
    pc \in {"members", "deps", "finalize", "write", "done"} =>
        \A n \in 1..Len(pkg.sheets) :
            lower(pkg.sheets[n].name) = "settings" =>
                LET cells == pkg.sheets[n].cells
                IN  /\ \A r \in labelRows(cells, "Sender_ID (ISA06)") :
                           st.sender = strip(Get(cells, <<r, 2>>, ""))
                    /\ \A r \in labelRows(cells, "Receiver_ID (ISA08)") :
                           st.receiver = strip(Get(cells, <<r, 2>>, ""))

\* The segments that open every sequence, by segment id and qualifier.
EnvelopeHead ==
    <<"ISA*", "GS*", "ST*", "BGN*", "DTP*007*", "N1*P5*", "N1*IN*">>

\* The segments that close every sequence.
EnvelopeTail ==
    <<"SE*", "GE*", "IEA*">>

\* C11: every generated sequence begins with ISA, GS, ST, BGN, DTP*007,
\* N1*P5, N1*IN in that order and ends with SE, GE, IEA in that order; each
\* of the ten occurs once; everything between N1*IN and SE is a segment of
\* a subscriber or a dependent, and every segment of a record lies there.
C11_Envelope ==
    pc \in {"write", "done"} =>
        LET produced == IF pc = "done" THEN outputLines ELSE edi
            n == Len(produced)
        IN  /\ n >= 10
            /\ \A k \in 1..7 : indices(produced, EnvelopeHead[k]) = {k}
            /\ \A k \in 1..3 : indices(produced, EnvelopeTail[k]) = {n - 3 + k}
            /\ \A i \in 1..Len(log) : log[i].from > 7 /\ log[i].to < n - 2
            /\ \A p \in 8..(n - 3) :
                   \E i \in 1..Len(log) : log[i].from <= p /\ p <= log[i].to

\* A sequence was finished that holds segments of two subscribers and of a
\* dependent between its head and its tail.
C11_Witness ==
    /\ pc = "write"
    /\ Cardinality(indices(edi, "INS*Y*")) = 2
    /\ Cardinality(indices(edi, "INS*N*")) >= 1

\* The step-by-step run ends as the call does: with the segments the call
\* returns, or with the exception it raises.
RunIsCall ==
    /\ pc \in {"write", "done"} =>
           generate_834_from_xlsx(variant, pkg, now) = returned(edi)
    /\ pc = "failed" =>
           generate_834_from_xlsx(variant, pkg, now) = raised(err)

\* The tables without the Members rows whose Subscriber_ID is empty after
\* trimming.
withoutSkipped(tbls) ==
    Put(tbls, "Members",
        SelectSeq(tableOf(tbls, "Members"), LAMBDA m : idOf(m) # ""))

\* C12: a Members row whose Subscriber_ID is empty after trimming
\* contributes nothing: the run ends as the call on the tables without such
\* rows does, with the same segments (so the same number of segments and
\* the same SE count) or the same error, whatever dates and plan key the
\* row holds; and no record of the run is such a row.
C12_SkippedRow ==
    /\ pc \in {"write", "done"} =>
           generated(variant, withoutSkipped(tables), now) = returned(edi)
    /\ (pc = "failed" /\ pkg.fault = "none") =>
           generated(variant, withoutSkipped(tables), now) = raised(err)
    /\ \A i \in 1..Len(log) :
           log[i].kind = "sub" => idOf(members[log[i].row]) # ""

\* A file was written from a Members table that holds a subscriber and a
\* row without Subscriber_ID whose date does not parse and whose plan key
\* is no key of Plans.
C12_Witness ==
    /\ pc = "done"
    /\ \E i \in 1..Len(log) : log[i].kind = "sub"
    /\ \E k \in 1..Len(members) :
           /\ idOf(members[k]) = ""
           /\ unresolved(members[k])
           /\ ~datesParse(subscriberDates(variant, members[k]))

\* C13, as stated: every Dependents row gives rise to at most one dependent
\* loop, also when Members holds several rows with the same Subscriber_ID:
\* no row is logged twice, and the sequence holds no more INS*N segments
\* than Dependents has rows.
C13_OneLoopPerDependent ==
    /\ \A k \in 1..Len(deps) :
           Cardinality({i \in 1..Len(log) :
                           log[i].kind = "dep" /\ log[i].row = k}) <= 1
    /\ pc \in {"write", "done"} =>
           Cardinality(indices(edi, "INS*N*")) <= Len(deps)

\* The row of the table that a logged record is.
rowOf(e) ==
    IF e.kind = "sub" THEN members[e.row] ELSE deps[e.row]

\* The records that were emitted.
emitted ==
    {i \in 1..Len(log) : log[i].ok}

\* The run ended on the last logged record, whose date does not parse or
\* whose plan key is no key of Plans.
endedOnDateOrPlan ==
    /\ log # <<>>
    /\ ~log[Len(log)].ok
    /\ \/ /\ err.kind = "ValueError"
          /\ ~datesParse(IF log[Len(log)].kind = "sub"
                         THEN subscriberDates(variant, rowOf(log[Len(log)]))
                         ELSE dependentDates(variant, rowOf(log[Len(log)])))
       \/ /\ err.kind = "KeyError"
          /\ \E key \in {ownKey(rowOf(log[Len(log)]))} \ PlanKeys :
                 lookupErrorNaming(key)

\* The maintenance type code of an action as it stands in a cell.
codeOfAction(text) ==
    LET a == upper(strip(text))
    IN  IF a = "CHG" THEN "002" ELSE IF a = "TERM" THEN "024" ELSE "001"

\* C14: the INS segment of every emitted subscriber and dependent carries
\* 001 for ADD, 002 for CHG, 024 for TERM and 001 for anything else or
\* nothing, the action being compared trimmed and in upper case; and a run
\* that ends at a record ends on a date or a plan key, never on an action.
C14_MaintenanceCode ==
    /\ \A i \in emitted :
           /\ Len(matching(log[i], "INS*")) = 1
           /\ element(matching(log[i], "INS*")[1], 4)
                  = codeOfAction(Get(rowOf(log[i]), "Action", ""))
    /\ (pc = "failed" /\ log # <<>>) => endedOnDateOrPlan

\* A file was written whose subscriber carries 002 for an action typed
\* ' chg ' and whose dependent carries 024 for an action typed 'Term'.
C14_Witness ==
    /\ pc = "done"
    /\ \E i, j \in emitted :
           /\ log[i].kind = "sub" /\ log[j].kind = "dep"
           /\ Get(rowOf(log[i]), "Action", "") = "chg"
           /\ Get(rowOf(log[j]), "Action", "") = "Term"
           /\ element(edi[log[i].from], 4) = "002"
           /\ element(edi[log[j].from], 4) = "024"

\* The relationship code of a relationship as it stands in a cell: the
\* comparison is on the trimmed text, letter case kept.
codeOfRelationship(text) ==
    IF strip(text) = "SPO" THEN "01"
    ELSE IF strip(text) = "CHD" THEN "19" ELSE "34"

\* C15: the INS segment of every emitted dependent carries 01 for SPO, 19
\* for CHD and 34 for every other relationship: none, unknown, or one that
\* differs in letter case only; and a run that ends at a record ends on a
\* date or a plan key, never on a relationship.
C15_RelationshipCode ==
    /\ \A i \in emitted :
           log[i].kind = "dep" =>
               /\ Len(matching(log[i], "INS*N*")) = 1
               /\ element(matching(log[i], "INS*N*")[1], 3)
                      = codeOfRelationship(Get(rowOf(log[i]), "Relationship", ""))
    /\ (pc = "failed" /\ log # <<>> /\ log[Len(log)].kind = "dep") =>
           endedOnDateOrPlan

\* A file was written whose dependent carries 34 for a relationship typed
\* 'spo'.
C15_Witness ==
    /\ pc = "done"
    /\ \E i \in emitted :
           /\ log[i].kind = "dep"
           /\ Get(rowOf(log[i]), "Relationship", "") = "spo"
           /\ element(edi[log[i].from], 3) = "34"

\* The trimmed value of field f of a row.
field(row, f) ==
    strip(Get(row, f, ""))

\* The number of segments a logged record appended that begin with prefix
\* is one when cond, none otherwise.
oneIff(e, prefix, cond) ==
    Len(matching(e, prefix)) = IF cond THEN 1 ELSE 0

\* C18: among the segments of every emitted subscriber there is one N3 when
\* address line 1 is held and none otherwise, one N4 exactly when city,
\* state or zip is held, one DMG exactly when birth date or gender is held,
\* one DTP*356 exactly when the coverage start is held, one DTP*357 exactly
\* when the coverage end is held; a subscriber that holds none of these
\* and no plan key yields one INS and one NM1 and nothing else.
C18_OptionalSegments ==
    \A i \in emitted :
        log[i].kind = "sub" =>
            LET m == rowOf(log[i])
            IN  /\ oneIff(log[i], "INS*", TRUE)
                /\ oneIff(log[i], "NM1*", TRUE)
                /\ oneIff(log[i], "N3*", field(m, "Sub_Address1") # "")
                /\ oneIff(log[i], "N4*", \/ field(m, "Sub_City") # ""
                                         \/ field(m, "Sub_State") # ""
                                         \/ field(m, "Sub_Zip") # "")
                /\ oneIff(log[i], "DMG*", \/ field(m, "Sub_DOB") # ""
                                          \/ field(m, "Sub_Gender") # "")
                /\ oneIff(log[i], "DTP*356*", field(m, "Coverage_Start") # "")
                /\ oneIff(log[i], "DTP*357*", field(m, "Coverage_End") # "")
                /\ (\A f \in DOMAIN m \ {"Subscriber_ID", "Subscriber_SSN"} :
                        field(m, f) = "")
                       => /\ log[i].to = log[i].from + 1
                          /\ matching(log[i], "HD*") = <<>>

\* Two subscribers were emitted: one that holds an identifier and an SSN
\* only, in two segments, and one that holds a zip and a gender and neither
\* address, city, state nor birth date, with an N4 and a DMG.
C18_Witness ==
    /\ pc = "done"
    /\ \E i \in emitted :
           /\ log[i].kind = "sub"
           /\ \A f \in DOMAIN rowOf(log[i]) \ {"Subscriber_ID", "Subscriber_SSN"} :
                  field(rowOf(log[i]), f) = ""
           /\ field(rowOf(log[i]), "Subscriber_SSN") = "123456789"
           /\ log[i].to = log[i].from + 1
    /\ \E i \in emitted :
           /\ log[i].kind = "sub"
           /\ field(rowOf(log[i]), "Sub_Zip") # ""
           /\ field(rowOf(log[i]), "Sub_Gender") # ""
           /\ field(rowOf(log[i]), "Sub_City") = ""
           /\ field(rowOf(log[i]), "Sub_DOB") = ""
           /\ Len(matching(log[i], "N4*")) = 1
           /\ Len(matching(log[i], "DMG*")) = 1
           /\ Len(matching(log[i], "N3*")) = 0

\* The positions in log of the subscribers, and of the dependents logged
\* after the subscriber at position i and before the next subscriber.
subscribersLogged ==
    {i \in 1..Len(log) : log[i].kind = "sub"}

dependentsLoggedAfter(i) ==
    {j \in (i + 1)..Len(log) :
        /\ log[j].kind = "dep"
        /\ \A k \in (i + 1)..j : log[k].kind = "dep"}

\* C19: the subscriber loops stand in the order of the Members rows; the
\* segments of a subscriber's dependents follow the subscriber's own
\* segments and precede the INS of the next subscriber; the dependents of
\* one subscriber stand in the order of the Dependents rows.  In a finished
\* sequence the subscribers are all rows of Members that hold an
\* identifier, and the dependents after a subscriber are all rows of
\* Dependents that hold its identifier.
C19_LoopOrder ==
    /\ log # <<>> => log[1].kind = "sub" /\ log[1].from = 8
    /\ \A i \in 1..(Len(log) - 1) : log[i + 1].from = log[i].to + 1
    /\ \A i \in emitted :
           /\ isSeg(edi[log[i].from],
                    IF log[i].kind = "sub" THEN "INS*Y*" ELSE "INS*N*")
           /\ indices(SubSeq(edi, log[i].from, log[i].to), "INS*") = {1}
    /\ \A i, j \in subscribersLogged : i < j => log[i].row < log[j].row
    /\ \A i \in subscribersLogged :
           /\ \A j \in dependentsLoggedAfter(i) :
                  /\ log[j].sub = log[i].row
                  /\ idOf(deps[log[j].row]) = idOf(members[log[i].row])
           /\ \A j, k \in dependentsLoggedAfter(i) :
                  j < k => log[j].row < log[k].row
    /\ pc \in {"write", "done"} =>
           /\ {log[i].row : i \in subscribersLogged}
                  = {r \in 1..Len(members) : idOf(members[r]) # ""}
           /\ \A i \in subscribersLogged :
                  {log[j].row : j \in dependentsLoggedAfter(i)}
                      = {r \in 1..Len(deps) :
                            idOf(deps[r]) = idOf(members[log[i].row])}

\* A file was written from two subscribers, 2002 before 2001 as their rows
\* stand, the second with two dependents whose rows are parted by a row of
\* the first subscriber's dependent.
C19_Witness ==
    /\ pc = "done"
    /\ Len(log) = 5
    /\ idOf(members[1]) = "2002" /\ idOf(members[2]) = "2001"
    /\ log[1].kind = "sub" /\ log[2].kind = "dep" /\ log[2].row = 2
    /\ log[3].kind = "sub" /\ log[4].row = 1 /\ log[5].row = 3

\* C20, as stated: the value of a cell of type 's' is the shared string at
\* the index its text denotes when that index is in 0..(number of shared
\* strings - 1), and the text itself in every other case: an index too
\* large, a negative one, a text that is no number.
C20_IndexOutsideRangeIsRaw ==
    (cPc = "out" /\ cIn.cell.t = "s" /\ cIn.cell.hasV) =>
        LET index == int(cIn.cell.v)
        IN  IF index.ok /\ 0 <= index.val /\ index.val < Len(cIn.shared)
            THEN cOut = cIn.shared[index.val + 1]
            ELSE cOut = cIn.cell.v

\* C16: a second run of the transform on the same package with the same
\* reading of the clock ends as the first did: with the same segments and
\* the same file, or with the same error; and how either run ends is the
\* value of a function of the package and the clock.
C16_SameAgain ==
    /\ (run = 2 /\ pc = "done") =>
           /\ prev.ended = "done"
           /\ edi = prev.edi
           /\ outfile = prev.file
    /\ (run = 2 /\ pc = "failed") =>
           /\ prev.ended = "failed"
           /\ err = prev.err
           /\ outfile = prev.file
    /\ pc \in {"write", "done"} =>
           generate_834_from_xlsx(variant, pkg, now) = returned(edi)
    /\ pc = "failed" =>
           generate_834_from_xlsx(variant, pkg, now) = raised(err)

\* A second run wrote its file from a subscriber and a dependent, after a
\* first run that wrote one.
C16_Witness ==
    /\ run = 2
    /\ pc = "done"
    /\ prev.ended = "done"
    /\ \E i, j \in emitted : log[i].kind = "sub" /\ log[j].kind = "dep"

\* An invocation ends as the call on its own package alone does: with the
\* segments the call returns, in its own file, or with the error the call
\* raises and no file.
endsAsCall(inv) ==
    /\ inv.pc \in {"write", "done"} =>
           generate_834_from_xlsx(variant, inv.pkg, inv.now) = returned(inv.edi)
    /\ inv.pc = "done" =>
           inv.outfile = [exists |-> TRUE, text |-> joinLines(inv.edi)]
    /\ inv.pc = "failed" =>
           /\ generate_834_from_xlsx(variant, inv.pkg, inv.now) = raised(inv.err)
           /\ inv.outfile = NoFile

\* C17: of two invocations that run at once, each on its own package and
\* target, under every interleaving of their steps each ends as it does
\* when it runs alone.
C17_Interleaved ==
    /\ endsAsCall(running)
    /\ endsAsCall(parked)

\* One invocation wrote its file from a subscriber and a dependent while
\* the other, on another package, stood in its dependents loop with
\* segments of a subscriber appended.
C17_Witness ==
    /\ pc = "done"
    /\ \E i, j \in emitted : log[i].kind = "sub" /\ log[j].kind = "dep"
    /\ parked.pc = "deps"
    /\ parked.pkg # pkg
    /\ Len(parked.edi) > 7


(***************************************************************************)
(* The reader's failures and projections.                                  *)
(***************************************************************************)

\* The archive opens and both indexes are present and well-formed.
mandatoryPartsSound(p) ==
    p.fault = "none"

\* C21: read_xlsx_tables fails only when the package is not a zip archive
\* or when the workbook index or the relationship index is missing or
\* malformed; on every other package, whatever the state of the shared
\* strings and of the declared worksheets' parts, it returns tables.
C21_FailsOnlyOnMandatoryParts ==
    /\ pc = "failed" => ~mandatoryPartsSound(pkg)
    /\ (pc # "start" /\ mandatoryPartsSound(pkg)) => pc = "prepare"

\* The grid of the first sheet of the package read.
grid == pkg.sheets[1].cells

\* The largest row that holds a cell.
lastRow(cells) == Max({rc[1] : rc \in DOMAIN cells})

\* The trimmed text at row r, column c of the grid; "" where no cell is.
at(cells, r, c) == strip(Get(cells, <<r, c>>, ""))

\* The rows of a settings grid that add an entry: the label is not blank
\* and is, whatever its letter case, neither "field" nor the title.
labelled(cells) ==
    {r \in 1..lastRow(cells) :
        /\ at(cells, r, 1) # ""
        /\ lower(at(cells, r, 1)) \notin
               {"field", "mock 834 generator - settings"}}

\* The read went through on a workbook whose first sheet is a settings
\* sheet with cells.
settingsProjected ==
    /\ pc = "prepare"
    /\ Len(pkg.sheets) = 1
    /\ lower(pkg.sheets[1].name) = "settings"
    /\ DOMAIN grid # {}

lastCol(cells) == Max({rc[2] : rc \in DOMAIN cells})

\* The columns of a list grid whose header in row 1 is not blank.
headed(cells) ==
    {c \in 1..lastCol(cells) : at(cells, 1, c) # ""}

\* The rows below the header that hold text under some headed column.
filled(cells) ==
    {r \in 2..lastRow(cells) :
        \E c \in headed(cells) : at(cells, r, c) # ""}

\* The i-th row of a set of rows, in row order.
nthRow(rows, i) ==
    CHOOSE r \in rows : Cardinality({q \in rows : q <= r}) = i

\* The read went through on a workbook whose only sheet is a list sheet
\* with cells.
listProjected ==
    /\ pc = "prepare"
    /\ Len(pkg.sheets) = 1
    /\ lower(pkg.sheets[1].name) # "settings"
    /\ DOMAIN grid # {}

\* C23: the table of a list sheet holds one record per row of 2..max row
\* that has text, after trimming, under a column with a non-blank header,
\* in row order; the keys of every record are exactly the trimmed
\* non-blank headers of row 1, and each key holds the trimmed cell of the
\* row under that header (under the last column of a repeated header).
C23_ListProjection ==
    listProjected =>
        LET result == tables[pkg.sheets[1].name]
        IN  /\ Len(result) = Cardinality(filled(grid))
            /\ \A i \in 1..Len(result) :
                   /\ DOMAIN result[i] =
                          {at(grid, 1, c) : c \in headed(grid)}
                   /\ \A c \in headed(grid) :
                          (\A b \in headed(grid) :
                              at(grid, 1, b) = at(grid, 1, c) => b <= c)
                          => result[i][at(grid, 1, c)] =
                                at(grid, nthRow(filled(grid), i), c)

\* A row is returned, a column has no header, and a row above the last
\* returned one is dropped although it holds text under that column.
C23_Witness ==
    /\ listProjected
    /\ Len(tables[pkg.sheets[1].name]) >= 1
    /\ \E r \in 2..lastRow(grid), c \in 1..lastCol(grid) :
           /\ r \notin filled(grid)
           /\ c \notin headed(grid)
           /\ at(grid, r, c) # ""
           /\ \E q \in filled(grid) : r < q

(***************************************************************************)
(* Control numbers and defaults.                                           *)
(***************************************************************************)

\* The trimmed text a label resolves to in the settings read.
setting(label, default) ==
    strip(Get(settingsOf(tables), label, default))

\* s with zeros put before it up to n characters.
RECURSIVE leftPad(_, _)
leftPad(s, n) ==
    IF Len(s) >= n THEN s ELSE leftPad("0" \o s, n)

\* s filled with zeros up to nine characters, the zeros standing after a
\* leading sign.
zeroFilled(s) ==
    IF Len(s) >= 9 THEN s
    ELSE IF s # "" /\ ch(s, 1) \in {"+", "-"}
         THEN ch(s, 1) \o leftPad(SubSeq(s, 2, Len(s)), 8)
         ELSE leftPad(s, 9)

\* The first segment of the written file with the prefix.
written(prefix) ==
    outputLines[firstIndex(indices(outputLines, prefix))]

\* The group and transaction control numbers of the written file agree
\* between header and trailer and are the settings.
groupAndTransactionAgree ==
    /\ element(written("GS*"), 7) = setting("Group_Control (GS06)", "1")
    /\ element(written("GE*"), 3) = element(written("GS*"), 7)
    /\ element(written("ST*"), 3) = setting("Transaction_Control (ST02)", "1")
    /\ element(written("BGN*"), 3) = element(written("ST*"), 3)
    /\ element(written("SE*"), 3) = element(written("ST*"), 3)

\* C24: in every written file ISA13 = IEA02, the trimmed interchange
\* control setting filled with zeros to nine characters (after a leading
\* sign, if it has one); GS06 = GE02; ST02 = BGN02 = SE02.
C24_ControlNumbersAgree ==
    pc = "done" =>
        /\ element(written("ISA*"), 14) =
               zeroFilled(setting("Interchange_Control (ISA13)", "1"))
        /\ element(written("IEA*"), 3) = element(written("ISA*"), 14)
        /\ groupAndTransactionAgree

\* C24 as stated: ISA13 and IEA02 are the setting with zeros on its left.
C24_LeftPadded ==
    pc = "done" =>
        /\ element(written("ISA*"), 14) =
               leftPad(setting("Interchange_Control (ISA13)", "1"), 9)
        /\ element(written("IEA*"), 3) = element(written("ISA*"), 14)
        /\ groupAndTransactionAgree

\* A file was written from three different control numbers, the
\* interchange one signed and shorter than nine characters.
C24_Witness ==
    /\ pc = "done"
    /\ setting("Interchange_Control (ISA13)", "1") = "-1"
    /\ setting("Group_Control (GS06)", "1") = "12"
    /\ setting("Transaction_Control (ST02)", "1") = "77"

(***************************************************************************)
(* The shape of the member loops in a finished sequence.                   *)
(***************************************************************************)

\* The positions of the DTP 348 and 349 segments.
coverageDates(produced) ==
    indices(produced, "DTP*348*") \cup indices(produced, "DTP*349*")

\* No INS segment stands at a position from a to b.
sameMember(produced, a, b) ==
    \A i \in indices(produced, "INS*") : i < a \/ i > b

\* C25: in every finished sequence an NM1 follows each INS at once and
\* stands nowhere else; there are as many INS*Y as Members rows with a
\* Subscriber_ID; every HD, DTP*348 and DTP*349 stands after an INS and
\* before the SE; and between a DTP*348 or DTP*349 and the INS before it
\* stands an HD.
C25_LoopShape ==
    pc \in {"write", "done"} =>
        LET produced == IF pc = "done" THEN outputLines ELSE edi
            ins == indices(produced, "INS*")
            se == indices(produced, "SE*")
        IN  /\ \A i \in ins :
                   i < Len(produced) /\ isSeg(produced[i + 1], "NM1*")
            /\ \A j \in indices(produced, "NM1*") : j - 1 \in ins
            /\ Cardinality(indices(produced, "INS*Y*")) =
                   Cardinality({r \in 1..Len(members) :
                                   idOf(members[r]) # ""})
            /\ \A k \in indices(produced, "HD*") \cup coverageDates(produced) :
                   /\ \E i \in ins : i < k
                   /\ \A e \in se : k < e
            /\ \A k \in coverageDates(produced) :
                   \E h \in indices(produced, "HD*") :
                       h < k /\ sameMember(produced, h + 1, k)

\* A file was written that holds a subscriber and a dependent, a member
\* with HD, DTP*348 and DTP*349, and a member with a DTP*356 and no HD.
C25_Witness ==
    /\ pc = "done"
    /\ indices(outputLines, "INS*Y*") # {}
    /\ indices(outputLines, "INS*N*") # {}
    /\ indices(outputLines, "DTP*348*") # {}
    /\ indices(outputLines, "DTP*349*") # {}
    /\ \E i \in indices(outputLines, "INS*") :
           \E k \in indices(outputLines, "DTP*356*") :
               /\ i < k
               /\ sameMember(outputLines, i + 1, k)
               /\ \A h \in indices(outputLines, "HD*") :
                      h < i \/ ~sameMember(outputLines, i + 1, h)

\* The documented default of each label; today's date for the as-of date.
Defaults ==
    [ sender |-> "SENDERID", receiver |-> "RECEIVERID", icn |-> "1",
      gcn |-> "1", tcn |-> "1", sponsor_name |-> "SPONSOR",
      sponsor_id |-> "000000000", payer_name |-> "PAYER",
      payer_id |-> "999999", file_type |-> "FULL",
      as_of |-> strftimeIso(now) ]

LabelOf ==
    [ sender |-> "Sender_ID (ISA06)", receiver |-> "Receiver_ID (ISA08)",
      icn |-> "Interchange_Control (ISA13)", gcn |-> "Group_Control (GS06)",
      tcn |-> "Transaction_Control (ST02)",
      sponsor_name |-> "Sponsor_Name (Employer)",
      sponsor_id |-> "Sponsor_ID (Employer ID)",
      payer_name |-> "Payer_Name (Carrier)",
      payer_id |-> "Payer_ID (Carrier ID)", file_type |-> "File_Type",
      as_of |-> "As_Of_Date" ]

\* The label stands in the settings mapping.
present(f) ==
    LabelOf[f] \in DOMAIN settingsOf(tables)

\* The trimmed value of a label that is present, the default of one that
\* is absent.
resolved(f) ==
    IF present(f) THEN strip(settingsOf(tables)[LabelOf[f]]) ELSE Defaults[f]

\* The first of the lines with the prefix.
lineOf(lines, prefix) ==
    lines[firstIndex(indices(lines, prefix))]

\* What the lines of the written file show of each setting.
rendered(lines) ==
    [ sender |-> element(lineOf(lines, "GS*"), 3),
      receiver |-> element(lineOf(lines, "GS*"), 4),
      icn |-> element(lineOf(lines, "ISA*"), 14),
      gcn |-> element(lineOf(lines, "GS*"), 7),
      tcn |-> element(lineOf(lines, "ST*"), 3),
      sponsor_name |-> element(lineOf(lines, "N1*P5*"), 3),
      sponsor_id |-> element(lineOf(lines, "N1*P5*"), 5),
      payer_name |-> element(lineOf(lines, "N1*IN*"), 3),
      payer_id |-> element(lineOf(lines, "N1*IN*"), 5),
      file_type |-> element(lineOf(lines, "BGN*"), 8),
      as_of |-> element(lineOf(lines, "DTP*007*"), 4) ]

\* The file shows r for the settings read: the resolved text of each
\* label, the control number zero-filled, the file type in capitals, the
\* date normalized; and the empty string for a label present and blank.
showsResolved(r, lines) ==
    /\ \A f \in DOMAIN LabelOf \ {"icn", "file_type", "as_of"} :
           r[f] = resolved(f)
    /\ r.icn = zeroFilled(resolved("icn"))
    /\ r.file_type = upper(resolved("file_type"))
    /\ r.as_of =
           (IF ~present("as_of") THEN strftimeYmd(now)
            ELSE IF resolved("as_of") = "" THEN ""
            ELSE yyyymmdd(variant, resolved("as_of")).val)
    /\ \A f \in DOMAIN LabelOf :
           (present(f) /\ resolved(f) = "") =>
               r[f] = (IF f = "icn" THEN "000000000" ELSE "")
    /\ (present("as_of") /\ resolved("as_of") = "") =>
           lineOf(lines, "DTP*007*") = "DTP*007*D8*~"

\* C26: the written file shows the default of a setting exactly when its
\* label is absent from the settings mapping; a label present with a blank
\* value shows as the empty string: the interchange control number as
\* 000000000 and the as-of date as the empty last element of DTP*007.
C26_DefaultOnlyWhenAbsent ==
    pc = "done" => showsResolved(rendered(outputLines), outputLines)

\* A file was written from settings whose interchange control number and
\* as-of date are present and blank while every other label is absent.
C26_Witness ==
    /\ pc = "done"
    /\ \A f \in DOMAIN LabelOf :
           present(f) <=> f \in {"icn", "as_of"}
    /\ resolved("icn") = ""
    /\ resolved("as_of") = ""

(***************************************************************************)
(* The threaded desktop forms.                                             *)
(***************************************************************************)

\* A worker is running or its finish callback is pending.
inFlight ==
    ui.threads # <<>> \/ ui.after # <<>>

\* The three controls are in the given state.
controls(state) ==
    /\ ui.btn_generate = state
    /\ ui.btn_browse_in = state
    /\ ui.btn_save_as = state

\* What the generator does with the package at the input path of the last
\* click that passed.
clickedResult ==
    generatorAt(variant, ui.clicked.in_path)

\* The run of the last click that passed succeeds: the generator returns
\* and the output path can be written.
clickedSucceeds ==
    clickedResult.ok /\ ui.clicked.out_path \notin Directories

\* From the click to the finish callback: one worker or callback at most,
\* the controls disabled, the worker on the paths of the click, and the
\* file of a worker that is through at the output path of the click,
\* holding what the input path of the click gives.
whileInFlight ==
    inFlight =>
        /\ Len(ui.threads) + Len(ui.after) = 1
        /\ controls("disabled")
        /\ \A t \in {ui.threads[i] : i \in 1..Len(ui.threads)}
                   \cup {ui.after[i] : i \in 1..Len(ui.after)} :
               /\ t.in_path = ui.clicked.in_path
               /\ t.out_path = ui.clicked.out_path
               /\ t.at = "post" =>
                      /\ t.rc = (IF clickedSucceeds THEN 0 ELSE 1)
                      /\ clickedSucceeds =>
                             /\ ui.clicked.out_path \in DOMAIN ui.files
                             /\ ui.files[ui.clicked.out_path] =
                                    joinLines(clickedResult.edi)

\* After the finish callback: the controls enabled and the status that of
\* the run.
whenFinished ==
    /\ ~inFlight
    /\ controls("normal")
    /\ ui.status_var = (IF clickedSucceeds THEN "Done." ELSE "Error.")

\* C27: in the threaded forms, from a click on Generate that passes
\* validation until the finish callback runs the three controls are
\* disabled and one worker at most is in flight, working on the paths the
\* entries held at the click; outside that span the controls are enabled;
\* and every run, successful or failed, leads to the finish callback,
\* which enables the controls and sets the status to "Done." for a
\* successful run and to "Error." for a failed one.
C27_OneWorkerThenFinish ==
    /\ [](whileInFlight /\ (~inFlight => controls("normal")))
    /\ [](ui.status_var \in {"Done.", "Error."} => whenFinished)
    /\ (inFlight ~> whenFinished)

\* A failed run has finished after an earlier run wrote a file, and the
\* user typed another input path while the failed run was in flight.
C27_Witness ==
    /\ ui.status_var = "Error."
    /\ ~inFlight
    /\ controls("normal")
    /\ DOMAIN ui.files # {}
    /\ ui.in_var # ui.clicked.in_path
    /\ ui.box = "showerror"

=============================================================================
